---- MODULE Spec2Model ----
(***************************************************************************)
(* Deep-MVLM PLY alignment pipeline: orientation detection, method        *)
(* scoring, the per-mesh hybrid orchestrators and the tier classification. *)
(*                                                                         *)
(* Units.  RANSAC errors are non-negative decimals in the source; they are *)
(* carried here in tenths (4.1 is 41, 10.0 is 100), so the thresholds      *)
(* 10.0 / 100.0 / 10000.0 are 100 / 1000 / 100000.  Extents are whole      *)
(* length units.  Ratios (aspect ratio, vertex density) are compared by    *)
(* cross-multiplication, which is what the float comparison computes for   *)
(* these integer inputs.                                                   *)
(***************************************************************************)
EXTENDS Integers, Sequences, FiniteSets, TLC

VARIABLES
    mesh,        \* the PLY under processing: extents, vertex count, point-data arrays
    mode,        \* which entry point runs: suite / processor (force_method) / aligner
    pc,          \* position inside the running entry point
    anatomy,     \* AnatomicalAligner.detect_anatomical_features result, <<>> before
    scoring,     \* HybridScaleFreeAligner.select_optimal_method result, <<>> before
    applied,     \* method applied by apply_hybrid_scale_free_alignment, <<>> before
    result,      \* per-mesh result of the orchestrator (test_single_file_hybrid dict)
    attempts,    \* calls made to the method testers, in order, with their outcome
    file_index,  \* process_batch: number of input files gone through
    batch,       \* process_batch: batch_results
    report,      \* generate_comprehensive_report: performance breakdown, <<>> before
    calls,       \* select_optimal_method calls on one aligner object: analysis and return
    rotation,    \* calculate_rotation_matrix call: its arguments and return, <<>> before
    alignment,   \* apply_anatomical_alignment / apply_scale_free_alignment outcome, <<>> before
    disk         \* temporary aligned PLY files present on disk

vars == <<mesh, mode, pc, anatomy, scoring, applied, result, attempts, file_index, batch, report,
         calls, rotation, alignment, disk>>

\* Python None / a present value
None == <<>>
Some(x) == <<x>>
Val(o) == o[1]

----------------------------------------------------------------------------
(* Performance thresholds, in tenths *)
excellent_threshold == 100
good_threshold == 1000
poor_threshold == 100000

\* mutant: boundary values fall into the lower tier
classify_performance_inclusive(ransac_error) ==
    IF ransac_error <= excellent_threshold THEN "excellent"
    ELSE IF ransac_error <= good_threshold THEN "very_good"
    ELSE IF ransac_error <= poor_threshold THEN "good"
    ELSE "poor"

classify_performance(ransac_error) ==
    IF ransac_error < excellent_threshold THEN "excellent"
    ELSE IF ransac_error < good_threshold THEN "very_good"
    ELSE IF ransac_error < poor_threshold THEN "good"
    ELSE "poor"

----------------------------------------------------------------------------
(* Orientation detection *)

\* mutant: non-strict comparison lets ties through to "standard"
detect_anatomical_features_ties(x_range, y_range, z_range) ==
    IF y_range >= x_range /\ x_range >= z_range THEN
        [orientation_guess |-> "standard", estimated_nose_dir |-> <<0, 0, 1>>, estimated_up_dir |-> <<0, 1, 0>>]
    ELSE IF z_range > y_range /\ y_range > x_range THEN
        [orientation_guess |-> "z_up", estimated_nose_dir |-> <<1, 0, 0>>, estimated_up_dir |-> <<0, 0, 1>>]
    ELSE IF x_range > z_range /\ z_range > y_range THEN
        [orientation_guess |-> "x_up", estimated_nose_dir |-> <<0, 1, 0>>, estimated_up_dir |-> <<1, 0, 0>>]
    ELSE
        [orientation_guess |-> "unknown", estimated_nose_dir |-> <<0, 0, 1>>, estimated_up_dir |-> <<0, 1, 0>>]

detect_anatomical_features(x_range, y_range, z_range) ==
    IF y_range > x_range /\ x_range > z_range THEN
        [orientation_guess |-> "standard", estimated_nose_dir |-> <<0, 0, 1>>, estimated_up_dir |-> <<0, 1, 0>>]
    ELSE IF z_range > y_range /\ y_range > x_range THEN
        [orientation_guess |-> "z_up", estimated_nose_dir |-> <<1, 0, 0>>, estimated_up_dir |-> <<0, 0, 1>>]
    ELSE IF x_range > z_range /\ z_range > y_range THEN
        [orientation_guess |-> "x_up", estimated_nose_dir |-> <<0, 1, 0>>, estimated_up_dir |-> <<1, 0, 0>>]
    ELSE
        [orientation_guess |-> "unknown", estimated_nose_dir |-> <<0, 0, 1>>, estimated_up_dir |-> <<0, 1, 0>>]

----------------------------------------------------------------------------
(* Mesh descriptors *)

Max2(a, b) == IF a >= b THEN a ELSE b
Min2(a, b) == IF a <= b THEN a ELSE b
Max3(a, b, c) == Max2(a, Max2(b, c))
Min3(a, b, c) == Min2(a, Min2(b, c))

\* array names as the two substring tests of the source see them
NameHasColor(name) == name \in {"Colors"}
NameHasRgb(name) == name \in {"rgb"}
NameHasNormal(name) == name \in {"Normals"}

\* the if / elif of the point-data scan: an array counted as color is not
\* looked at for normals
ArrayIsColor(a) == (a.n_components >= 3 /\ NameHasColor(a.name)) \/ NameHasRgb(a.name)
ArrayIsNormal(a) == ~ArrayIsColor(a) /\ a.n_components = 3 /\ NameHasNormal(a.name)

\* The derived quantities are kept exact: max_aspect_ratio as the pair
\* (ratio_num, ratio_den) of the largest and smallest extent, the diagonal
\* as its square, vertex_density as n_points over diagonal_sq.
analyze_ply_characteristics(m) ==
    LET width == m.width
        height == m.height
        depth == m.depth
        hi == Max3(width, height, depth)
        lo == Min3(width, height, depth)
    IN [n_points |-> m.n_points,
        width |-> width, height |-> height, depth |-> depth,
        diagonal_sq |-> width * width + height * height + depth * depth,
        ratio_num |-> hi, ratio_den |-> lo,
        is_standard_face |-> (height > width /\ width > depth) /\ (hi < 2 * lo),
        n_arrays |-> Len(m.arrays),
        has_colors |-> \E i \in 1..Len(m.arrays) : ArrayIsColor(m.arrays[i]),
        has_normals |-> \E i \in 1..Len(m.arrays) : ArrayIsNormal(m.arrays[i])]

----------------------------------------------------------------------------
(* Method scoring: five factors applied in order to the factors record *)

AddAnatomical(f, n) == [f EXCEPT !.anatomical_score = @ + n]
AddUltimate(f, n) == [f EXCEPT !.ultimate_score = @ + n]

\* mutant: the two branches of Factor 1 exchanged
factor_orientation_swapped(f, analysis) ==
    IF analysis.is_standard_face THEN AddUltimate(f, 2) ELSE AddAnatomical(f, 3)

\* Factor 1: face orientation
factor_orientation(f, analysis) ==
    IF analysis.is_standard_face THEN AddAnatomical(f, 3) ELSE AddUltimate(f, 2)

\* Factor 2: aspect ratio, < 1.5 and > 3.0
factor_aspect_ratio(f, analysis) ==
    IF 2 * analysis.ratio_num < 3 * analysis.ratio_den THEN AddAnatomical(f, 2)
    ELSE IF analysis.ratio_num > 3 * analysis.ratio_den THEN AddUltimate(f, 3)
    ELSE f

\* Factor 3: vertex density n_points / diagonal^2, > 100 and < 10
factor_density(f, analysis) ==
    IF analysis.n_points > 100 * analysis.diagonal_sq THEN AddAnatomical(f, 1)
    ELSE IF analysis.n_points < 10 * analysis.diagonal_sq THEN AddUltimate(f, 1)
    ELSE f

\* Factor 4: data complexity
factor_data(f, analysis) ==
    IF analysis.has_colors /\ analysis.has_normals THEN AddAnatomical(f, 2)
    ELSE IF analysis.n_arrays = 0 THEN AddUltimate(f, 1)
    ELSE f

\* mutant: closed interval [100, 300]
factor_size_closed(f, analysis) ==
    IF 10000 <= analysis.diagonal_sq /\ analysis.diagonal_sq <= 90000 THEN AddAnatomical(f, 1)
    ELSE IF analysis.diagonal_sq > 250000 \/ analysis.diagonal_sq < 2500 THEN AddUltimate(f, 2)
    ELSE f

\* Factor 5: size, 100 < diagonal < 300, diagonal > 500 or < 50 (on squares)
factor_size(f, analysis) ==
    IF 10000 < analysis.diagonal_sq /\ analysis.diagonal_sq < 90000 THEN AddAnatomical(f, 1)
    ELSE IF analysis.diagonal_sq > 250000 \/ analysis.diagonal_sq < 2500 THEN AddUltimate(f, 2)
    ELSE f

\* mutant: ties go to ultimate
decide_method_strict(anatomical_score, ultimate_score) ==
    IF anatomical_score > ultimate_score THEN "anatomical" ELSE "ultimate"

\* the decision line
decide_method(anatomical_score, ultimate_score) ==
    IF anatomical_score >= ultimate_score THEN "anatomical" ELSE "ultimate"

\* mutant: the extreme-proportions row is dropped
score_factors_no_extreme(analysis) ==
    LET f0 == [anatomical_score |-> 0, ultimate_score |-> 0]
        f1 == factor_orientation(f0, analysis)
        f2 == IF 2 * analysis.ratio_num < 3 * analysis.ratio_den THEN AddAnatomical(f1, 2) ELSE f1
        f3 == factor_density(f2, analysis)
        f4 == factor_data(f3, analysis)
    IN factor_size(f4, analysis)

\* mutant: the scores carry over from the previous call on the same object
score_factors_accumulating(analysis) ==
    LET f0 == IF calls = <<>> THEN [anatomical_score |-> 0, ultimate_score |-> 0]
              ELSE [anatomical_score |-> calls[Len(calls)].result.anatomical_score,
                    ultimate_score |-> calls[Len(calls)].result.ultimate_score]
        f1 == factor_orientation(f0, analysis)
        f2 == factor_aspect_ratio(f1, analysis)
        f3 == factor_density(f2, analysis)
        f4 == factor_data(f3, analysis)
    IN factor_size(f4, analysis)

score_factors(analysis) ==
    LET f0 == [anatomical_score |-> 0, ultimate_score |-> 0]
        f1 == factor_orientation(f0, analysis)
        f2 == factor_aspect_ratio(f1, analysis)
        f3 == factor_density(f2, analysis)
        f4 == factor_data(f3, analysis)
    IN factor_size(f4, analysis)

select_optimal_method(analysis) ==
    LET factors == score_factors(analysis)
    IN [selected_method |-> decide_method(factors.anatomical_score, factors.ultimate_score),
        anatomical_score |-> factors.anatomical_score,
        ultimate_score |-> factors.ultimate_score]

----------------------------------------------------------------------------
(* Input domains *)

MaxArrays == 2

\* point-data arrays a PLY can carry
ArrayChoices ==
    { [n_components |-> 3, name |-> "Colors"],
      [n_components |-> 1, name |-> "rgb"],
      [n_components |-> 3, name |-> "Normals"],
      [n_components |-> 1, name |-> "Array_0"] }

ArrayLists == UNION { [1..n -> ArrayChoices] : n \in 0..MaxArrays }

\* extents: every ordering and tie of a few lengths, and the named shapes
ExtentValues == {30, 36, 40, 50, 190}
ExtentTriples ==
    (ExtentValues \X ExtentValues \X ExtentValues)
    \cup { <<50, 190, 40>>, <<500, 30, 10>>, <<10, 30, 500>>, <<30, 10, 20>>,
           <<36, 48, 80>>, <<108, 144, 240>>, <<100, 120, 90>>, <<110, 150, 80>>,
           <<200, 300, 400>>, <<150, 290, 100>>, <<300, 310, 299>> }

PointCounts == {1000, 500000, 5000000, 30000000}

Meshes ==
    { [width |-> e[1], height |-> e[2], depth |-> e[3], n_points |-> n, arrays |-> a] :
        e \in ExtentTriples, n \in PointCounts, a \in ArrayLists }

Idle ==
    /\ anatomy = None /\ scoring = None /\ applied = None
    /\ result = None /\ attempts = <<>> /\ file_index = 0 /\ batch = <<>> /\ report = None
    /\ calls = <<>> /\ rotation = None /\ alignment = None /\ disk = {}

----------------------------------------------------------------------------
(* Scoring workflow: AnatomicalAligner.analyze_ply_anatomy and              *)
(* HybridScaleFreeAligner.apply_hybrid_scale_free_alignment on one mesh     *)

InitScore ==
    /\ mesh \in Meshes
    /\ mode = "aligner"
    /\ pc = "start"
    /\ Idle

analyze_ply_anatomy ==
    /\ mode = "aligner"
    /\ anatomy = None
    /\ anatomy' = Some(detect_anatomical_features(mesh.width, mesh.height, mesh.depth))
    /\ UNCHANGED <<mesh, mode, pc, scoring, applied, result, attempts, file_index, batch, report, calls, rotation, alignment, disk>>

apply_hybrid_scale_free_alignment ==
    /\ mode = "aligner"
    /\ pc = "start"
    /\ LET analysis == analyze_ply_characteristics(mesh)
           sel == select_optimal_method(analysis)
       IN /\ scoring' = Some(sel)
          /\ applied' = Some(IF sel.selected_method = "anatomical" THEN "anatomical" ELSE "ultimate")
    /\ pc' = "done"
    /\ UNCHANGED <<mesh, mode, anatomy, result, attempts, file_index, batch, report, calls, rotation, alignment, disk>>

NextScore == analyze_ply_anatomy \/ apply_hybrid_scale_free_alignment

SpecScore == InitScore /\ [][NextScore]_vars

----------------------------------------------------------------------------
(* Per-mesh orchestrators                                                   *)
(*   suite      ComprehensivePLYTestSuite.test_single_file_hybrid           *)
(*   processor* HybridPLYProcessor.process_single_file_hybrid, by force_method *)

Errors == {0, 41, 99, 100, 650, 1000, 1001, 99990, 100000, 500000}

\* what one tester call (alignment, predictor run, regex on its output) yields
FailureReasons == {"alignment_exception", "Prediction timeout", "Could not extract RANSAC"}
AttemptOutcomes ==
    { [success |-> FALSE, error |-> r] : r \in FailureReasons }
    \cup { [success |-> TRUE, ransac_error |-> e] : e \in Errors }

\* the meshes run through the orchestrators: one the scorer gives to
\* anatomical, two it gives to ultimate
OrchMeshes ==
    { [width |-> 100, height |-> 120, depth |-> 90, n_points |-> 5000000,
       arrays |-> << [n_components |-> 3, name |-> "Colors"], [n_components |-> 3, name |-> "Normals"] >>],
      [width |-> 50, height |-> 190, depth |-> 40, n_points |-> 500000, arrays |-> <<>>],
      [width |-> 500, height |-> 30, depth |-> 10, n_points |-> 1000, arrays |-> <<>>] }

OrchModes == {"suite", "processor", "processor_anatomical", "processor_ultimate"}

force_method(m) ==
    IF m = "processor_anatomical" THEN Some("anatomical")
    ELSE IF m = "processor_ultimate" THEN Some("ultimate")
    ELSE None

\* mutant: a third pass over the first method
methods_to_try_again(force) ==
    IF force = Some("ultimate") THEN <<"ultimate">>
    ELSE IF force = Some("anatomical") THEN <<"anatomical">>
    ELSE <<"anatomical", "ultimate", "anatomical">>

\* mutant: ultimate is tried first
methods_to_try_swapped(force) ==
    IF force = Some("ultimate") THEN <<"ultimate">>
    ELSE IF force = Some("anatomical") THEN <<"anatomical">>
    ELSE <<"ultimate", "anatomical">>

methods_to_try(force) ==
    IF force = Some("ultimate") THEN <<"ultimate">>
    ELSE IF force = Some("anatomical") THEN <<"anatomical">>
    ELSE <<"anatomical", "ultimate">>

\* the entry of a successful attempt in the result
attempt_entry(ransac) == [ransac_error |-> ransac, status |-> classify_performance(ransac)]

\* mutant: the early return is taken below good_threshold
skip_ultimate_below_good(entry) == entry.ransac_error < good_threshold

\* "If anatomical is excellent, no need to test ultimate"
skip_ultimate(entry) == entry.status = "excellent"

\* mutant: the later attempt replaces the earlier one
determine_best_last(anatomical_result, ultimate_result) ==
    IF ultimate_result # None THEN
        [best_method |-> Some("ultimate"), best_ransac |-> Some(Val(ultimate_result).ransac_error),
         best_performance |-> Some(Val(ultimate_result).status), failed |-> FALSE]
    ELSE IF anatomical_result # None THEN
        [best_method |-> Some("anatomical"), best_ransac |-> Some(Val(anatomical_result).ransac_error),
         best_performance |-> Some(Val(anatomical_result).status), failed |-> FALSE]
    ELSE [best_method |-> None, best_ransac |-> None, best_performance |-> None, failed |-> TRUE]

\* mutant: two errors at or above poor_threshold leave the mesh unresolved
determine_best_poor_fails(anatomical_result, ultimate_result) ==
    IF anatomical_result # None /\ ultimate_result # None THEN
        IF Val(anatomical_result).ransac_error >= poor_threshold
           /\ Val(ultimate_result).ransac_error >= poor_threshold THEN
            [best_method |-> None, best_ransac |-> None, best_performance |-> None, failed |-> TRUE]
        ELSE IF Val(anatomical_result).ransac_error <= Val(ultimate_result).ransac_error THEN
            [best_method |-> Some("anatomical"), best_ransac |-> Some(Val(anatomical_result).ransac_error),
             best_performance |-> Some(Val(anatomical_result).status), failed |-> FALSE]
        ELSE
            [best_method |-> Some("ultimate"), best_ransac |-> Some(Val(ultimate_result).ransac_error),
             best_performance |-> Some(Val(ultimate_result).status), failed |-> FALSE]
    ELSE IF anatomical_result # None THEN
        [best_method |-> Some("anatomical"), best_ransac |-> Some(Val(anatomical_result).ransac_error),
         best_performance |-> Some(Val(anatomical_result).status), failed |-> FALSE]
    ELSE IF ultimate_result # None THEN
        [best_method |-> Some("ultimate"), best_ransac |-> Some(Val(ultimate_result).ransac_error),
         best_performance |-> Some(Val(ultimate_result).status), failed |-> FALSE]
    ELSE [best_method |-> None, best_ransac |-> None, best_performance |-> None, failed |-> TRUE]

\* mutant: a method is reported only when both attempts gave an error
determine_best_needs_both(anatomical_result, ultimate_result) ==
    IF anatomical_result # None /\ ultimate_result # None THEN
        IF Val(anatomical_result).ransac_error <= Val(ultimate_result).ransac_error THEN
            [best_method |-> Some("anatomical"), best_ransac |-> Some(Val(anatomical_result).ransac_error),
             best_performance |-> Some(Val(anatomical_result).status), failed |-> FALSE]
        ELSE
            [best_method |-> Some("ultimate"), best_ransac |-> Some(Val(ultimate_result).ransac_error),
             best_performance |-> Some(Val(ultimate_result).status), failed |-> FALSE]
    ELSE [best_method |-> None, best_ransac |-> None, best_performance |-> None, failed |-> TRUE]

\* "Determine best method": the four-way branch; failed is the last branch
\* ("Both methods failed - needs manual investigation")
determine_best(anatomical_result, ultimate_result) ==
    IF anatomical_result # None /\ ultimate_result # None THEN
        IF Val(anatomical_result).ransac_error <= Val(ultimate_result).ransac_error THEN
            [best_method |-> Some("anatomical"), best_ransac |-> Some(Val(anatomical_result).ransac_error),
             best_performance |-> Some(Val(anatomical_result).status), failed |-> FALSE]
        ELSE
            [best_method |-> Some("ultimate"), best_ransac |-> Some(Val(ultimate_result).ransac_error),
             best_performance |-> Some(Val(ultimate_result).status), failed |-> FALSE]
    ELSE IF anatomical_result # None THEN
        [best_method |-> Some("anatomical"), best_ransac |-> Some(Val(anatomical_result).ransac_error),
         best_performance |-> Some(Val(anatomical_result).status), failed |-> FALSE]
    ELSE IF ultimate_result # None THEN
        [best_method |-> Some("ultimate"), best_ransac |-> Some(Val(ultimate_result).ransac_error),
         best_performance |-> Some(Val(ultimate_result).status), failed |-> FALSE]
    ELSE [best_method |-> None, best_ransac |-> None, best_performance |-> None, failed |-> TRUE]

\* Python truthiness of best_ransac: None and 0.0 are false
Truthy(o) == o # None /\ Val(o) # 0

\* the result dict of test_single_file_hybrid as created on entry
suite_result_new ==
    [anatomical_result |-> None, ultimate_result |-> None,
     best_method |-> None, best_ransac |-> None, best_performance |-> None,
     needs_optimization |-> FALSE, returned |-> FALSE]

Init ==
    /\ mesh \in OrchMeshes
    /\ mode \in OrchModes
    /\ pc = "start"
    /\ Idle

\* test_single_file_hybrid up to its first return point: the anatomical test,
\* and the early return when it is excellent
suite_test_anatomical(o) ==
    /\ mode = "suite"
    /\ pc = "start"
    /\ attempts' = Append(attempts, [method |-> "anatomical", outcome |-> o])
    /\ IF o.success THEN
          LET entry == attempt_entry(o.ransac_error)
              r1 == [suite_result_new EXCEPT !.anatomical_result = Some(entry)]
          IN IF skip_ultimate(entry) THEN
                 /\ result' = Some([r1 EXCEPT !.best_method = Some("anatomical"),
                                              !.best_ransac = Some(entry.ransac_error),
                                              !.best_performance = Some(entry.status),
                                              !.returned = TRUE])
                 /\ pc' = "done"
             ELSE
                 /\ result' = Some(r1)
                 /\ pc' = "ultimate"
       ELSE
          /\ result' = Some(suite_result_new)
          /\ pc' = "ultimate"
    /\ UNCHANGED <<mesh, mode, anatomy, scoring, applied, file_index, batch, report, calls, rotation, alignment, disk>>

\* the rest of test_single_file_hybrid: the ultimate test, the choice of the
\* best method and the needs_optimization check
suite_test_ultimate(o) ==
    /\ mode = "suite"
    /\ pc = "ultimate"
    /\ attempts' = Append(attempts, [method |-> "ultimate", outcome |-> o])
    /\ LET r0 == Val(result)
           r1 == IF o.success
                 THEN [r0 EXCEPT !.ultimate_result = Some(attempt_entry(o.ransac_error))]
                 ELSE r0
           best == determine_best(r1.anatomical_result, r1.ultimate_result)
           r2 == [r1 EXCEPT !.best_method = best.best_method,
                            !.best_ransac = best.best_ransac,
                            !.best_performance = best.best_performance,
                            !.needs_optimization = best.failed]
           r3 == IF Truthy(r2.best_ransac) /\ Val(r2.best_ransac) > good_threshold
                 THEN [r2 EXCEPT !.needs_optimization = TRUE]
                 ELSE r2
       IN result' = Some([r3 EXCEPT !.returned = TRUE])
    /\ pc' = "done"
    /\ UNCHANGED <<mesh, mode, anatomy, scoring, applied, file_index, batch, report, calls, rotation, alignment, disk>>

\* the inline "Performance assessment" of process_single_file_hybrid (< 10, < 100, < 10000)
processor_assessment(ransac_error) ==
    IF ransac_error < 100 THEN "excellent"
    ELSE IF ransac_error < 1000 THEN "very_good"
    ELSE IF ransac_error < 100000 THEN "good"
    ELSE "poor"

\* mutant: the new entry replaces what the dict held
dict_set_replace(results, entry) == <<entry>>

\* results[method] = {...} on an insertion-ordered dict
dict_set(results, entry) ==
    IF \E i \in 1..Len(results) : results[i].method = entry.method
    THEN [i \in 1..Len(results) |->
            IF results[i].method = entry.method THEN entry ELSE results[i]]
    ELSE Append(results, entry)

\* mutant: min() resolved to the last minimal key
min_by_ransac_last(results) ==
    LET best == CHOOSE i \in 1..Len(results) :
                   /\ \A j \in 1..Len(results) : results[i].ransac_error <= results[j].ransac_error
                   /\ \A j \in (i + 1)..Len(results) : results[j].ransac_error > results[i].ransac_error
    IN results[best]

\* min(results.keys(), key=ransac_error): the first key, in insertion order,
\* whose error is minimal
min_by_ransac(results) ==
    LET best == CHOOSE i \in 1..Len(results) :
                   /\ \A j \in 1..Len(results) : results[i].ransac_error <= results[j].ransac_error
                   /\ \A j \in 1..(i - 1) : results[j].ransac_error > results[i].ransac_error
    IN results[best]

\* "Select best method if multiple were tested"; no entry is the return of None
select_best(results) ==
    IF Len(results) > 1 THEN
        [best_method |-> Some(min_by_ransac(results).method),
         best_ransac |-> Some(min_by_ransac(results).ransac_error)]
    ELSE IF Len(results) = 1 THEN
        [best_method |-> Some(results[1].method), best_ransac |-> Some(results[1].ransac_error)]
    ELSE [best_method |-> None, best_ransac |-> None]

\* one pass of the loop over methods_to_try; the last pass runs on into the
\* selection and the return
processor_iteration(o) ==
    /\ mode \in {"processor", "processor_anatomical", "processor_ultimate"}
    /\ pc \in {"start", "iterating"}
    /\ LET methods == methods_to_try(force_method(mode))
           i == Len(attempts) + 1
           method == methods[i]
           results == IF result = None THEN <<>> ELSE Val(result).all_results
           results1 == IF o.success
                       THEN dict_set(results, [method |-> method, ransac_error |-> o.ransac_error,
                                               status |-> processor_assessment(o.ransac_error)])
                       ELSE results
       IN /\ attempts' = Append(attempts, [method |-> method, outcome |-> o])
          /\ IF i < Len(methods) THEN
                /\ result' = Some([all_results |-> results1, best_method |-> None,
                                   best_ransac |-> None, returned |-> FALSE])
                /\ pc' = "iterating"
             ELSE
                /\ result' = Some([all_results |-> results1,
                                   best_method |-> select_best(results1).best_method,
                                   best_ransac |-> select_best(results1).best_ransac,
                                   returned |-> TRUE])
                /\ pc' = "done"
    /\ UNCHANGED <<mesh, mode, anatomy, scoring, applied, file_index, batch, report, calls, rotation, alignment, disk>>

Next ==
    \/ \E o \in AttemptOutcomes : suite_test_anatomical(o)
    \/ \E o \in AttemptOutcomes : suite_test_ultimate(o)
    \/ \E o \in AttemptOutcomes : processor_iteration(o)

Spec == Init /\ [][Next]_vars

----------------------------------------------------------------------------
(* Properties of the per-mesh orchestrators, checked under Spec *)

FirstOutcome == attempts[1].outcome
SuccessfulAttempts == { i \in 1..Len(attempts) : attempts[i].outcome.success }
Finished == pc = "done"

\* C1: for every mesh and every combination of attempt outcomes, each of the
\* two methods is attempted at most once, so an orchestrator makes at most two
\* attempts before it returns.
C1_EachMethodAtMostOnce ==
    /\ Len(attempts) <= 2
    /\ \A i, j \in 1..Len(attempts) : i # j => attempts[i].method # attempts[j].method

\* C1 witness: a first attempt at 50000.0 was followed by exactly one more
\* attempt, with the other method, and the orchestrator returned.
C1_Witness ==
    /\ Finished
    /\ Len(attempts) = 2
    /\ FirstOutcome.success /\ FirstOutcome.ransac_error = 500000
    /\ attempts[2].method # attempts[1].method

C3_BestIsMinimum ==
    (Finished /\ SuccessfulAttempts # {}) =>
        /\ Val(result).best_ransac # None
        /\ Val(result).best_method # None
        /\ \A i \in SuccessfulAttempts :
              Val(Val(result).best_ransac) <= attempts[i].outcome.ransac_error
        /\ \E i \in SuccessfulAttempts :
              /\ attempts[i].method = Val(Val(result).best_method)
              /\ attempts[i].outcome.ransac_error = Val(Val(result).best_ransac)

\* C3 witness: two finite attempts, the second strictly better, and the second
\* reported.
C3_Witness ==
    /\ Finished
    /\ Len(attempts) = 2
    /\ attempts[1].outcome.success /\ attempts[2].outcome.success
    /\ attempts[2].outcome.ransac_error < attempts[1].outcome.ransac_error
    /\ Val(result).best_method = Some(attempts[2].method)

\* C4 as stated: a mesh ends with no method reported exactly when both methods
\* were tried with both errors >= poor_threshold, or the final attempt was
\* unavailable.
C4_Original ==
    Finished =>
        (Val(result).best_method = None
            <=> \/ /\ Len(attempts) = 2
                   /\ \A i \in 1..2 : /\ attempts[i].outcome.success
                                      /\ attempts[i].outcome.ransac_error >= poor_threshold
                \/ ~attempts[Len(attempts)].outcome.success)

\* C4 amended: a mesh ends with no method reported exactly when no attempt made
\* for it returned a finite error; in every other case, two errors at or above
\* poor_threshold and an unavailable final attempt after a finite one included,
\* a method is reported.
C4_FailedIffNoFiniteError ==
    Finished => (Val(result).best_method = None <=> SuccessfulAttempts = {})

\* C4 witness: both methods returned errors >= poor_threshold and a method is
\* reported all the same.
C4_Witness ==
    /\ Finished
    /\ Len(attempts) = 2
    /\ \A i \in 1..2 : /\ attempts[i].outcome.success
                       /\ attempts[i].outcome.ransac_error >= poor_threshold
    /\ Val(result).best_method # None

ScorerChoice == select_optimal_method(analyze_ply_characteristics(mesh)).selected_method
OtherMethod(m) == IF m = "anatomical" THEN "ultimate" ELSE "anatomical"

\* C5 as stated: the first attempt uses the method select_optimal_method
\* selects from the mesh's descriptors and a second attempt uses the other.
C5_Original ==
    /\ Len(attempts) >= 1 => attempts[1].method = ScorerChoice
    /\ Len(attempts) >= 2 => attempts[2].method = OtherMethod(ScorerChoice)

\* C5 amended: the orchestrators do not consult the scorer: the first attempt
\* is anatomical (ultimate only when force_method is ultimate), whatever
\* select_optimal_method selects for the mesh, and a second attempt, when it
\* happens, uses the ultimate method.
C5_AnatomicalFirst ==
    /\ Len(attempts) >= 1 =>
          attempts[1].method = (IF mode = "processor_ultimate" THEN "ultimate" ELSE "anatomical")
    /\ Len(attempts) >= 2 =>
          (attempts[1].method = "anatomical" /\ attempts[2].method = "ultimate")

\* C5 witness: a mesh the scorer gives to ultimate was attempted with
\* anatomical first and ultimate second.
C5_Witness ==
    /\ ScorerChoice = "ultimate"
    /\ Len(attempts) = 2
    /\ attempts[1].method = "anatomical"
    /\ attempts[2].method = "ultimate"

----------------------------------------------------------------------------
(* Batch run: BatchAnatomicalProcessor.process_batch and the performance     *)
(* breakdown of generate_comprehensive_report                                *)

MaxBatch == 5

BatchErrors == {41, 100, 150, 650, 1000, 99990, 100000, 800000}

\* one input file: missing, alignment failed, prediction failed, or an error
BatchOutcomes ==
    { [success |-> FALSE, error |-> r] :
        r \in {"File not found", "alignment_exception", "Prediction timeout", "Could not extract RANSAC error"} }
    \cup { [success |-> TRUE, ransac_error |-> e] : e \in BatchErrors }

\* the reference mesh of the batch
BatchMesh == [width |-> 100, height |-> 120, depth |-> 90, n_points |-> 500000, arrays |-> <<>>]

\* the inline "Performance assessment" of process_batch (< 10, < 100, < 10000)
batch_assessment(ransac_error) ==
    IF ransac_error < 100 THEN "excellent"
    ELSE IF ransac_error < 1000 THEN "very_good"
    ELSE IF ransac_error < 100000 THEN "good"
    ELSE "poor"

CountStatus(results, status) == Cardinality({ i \in 1..Len(results) : results[i].status = status })

InitTier ==
    /\ mesh = BatchMesh
    /\ mode \in {"batch", "suite"}
    /\ pc = "start"
    /\ Idle

\* one pass of the loop over input_files: only a parsed error is appended
process_batch_file(o) ==
    /\ mode = "batch"
    /\ pc = "start"
    /\ file_index < MaxBatch
    /\ file_index' = file_index + 1
    /\ batch' = IF o.success
                THEN Append(batch, [ransac_error |-> o.ransac_error,
                                    status |-> batch_assessment(o.ransac_error)])
                ELSE batch
    /\ UNCHANGED <<mesh, mode, pc, anatomy, scoring, applied, result, attempts, report, calls, rotation, alignment, disk>>

\* generate_comprehensive_report on the returned batch_results; nothing is
\* reported for an empty list
generate_comprehensive_report ==
    /\ mode = "batch"
    /\ pc = "start"
    /\ file_index = MaxBatch
    /\ report' = IF batch = <<>> THEN None
                 ELSE Some([excellent |-> CountStatus(batch, "excellent"),
                            very_good |-> CountStatus(batch, "very_good"),
                            good |-> CountStatus(batch, "good"),
                            poor |-> CountStatus(batch, "poor")])
    /\ pc' = "reported"
    /\ UNCHANGED <<mesh, mode, anatomy, scoring, applied, result, attempts, file_index, batch, calls, rotation, alignment, disk>>

NextTier ==
    \/ \E o \in BatchOutcomes : process_batch_file(o)
    \/ generate_comprehensive_report
    \/ \E o \in AttemptOutcomes : suite_test_anatomical(o)
    \/ \E o \in AttemptOutcomes : suite_test_ultimate(o)

SpecTier == InitTier /\ [][NextTier]_vars

\* the tier of an error by the four half-open intervals (tenths)
TierByInterval(e) ==
    CASE e < 100 -> "excellent"
      [] 100 <= e /\ e < 1000 -> "very_good"
      [] 1000 <= e /\ e < 100000 -> "good"
      [] e >= 100000 -> "poor"

CountInterval(results, lo, hi) ==
    Cardinality({ i \in 1..Len(results) : lo <= results[i].ransac_error /\ results[i].ransac_error < hi })

\* C6: the tier is a total function of the error with half-open boundaries
\* (excellent < 10 <= very_good < 100 <= good < 10000 <= poor, so exactly 10
\* is very_good, exactly 100 good, exactly 10000 poor), both where
\* classify_performance assigns it to an attempt and where process_batch
\* assigns it to a batch entry, and the per-tier counts of a batch report are
\* the numbers of errors in each interval.
C6_TierBoundaries ==
    /\ \A i \in 1..Len(batch) : batch[i].status = TierByInterval(batch[i].ransac_error)
    /\ (result # None /\ mode = "suite") =>
          /\ Val(result).anatomical_result # None =>
                Val(Val(result).anatomical_result).status
                    = TierByInterval(Val(Val(result).anatomical_result).ransac_error)
          /\ Val(result).ultimate_result # None =>
                Val(Val(result).ultimate_result).status
                    = TierByInterval(Val(Val(result).ultimate_result).ransac_error)
    /\ report # None =>
          /\ Val(report).excellent = CountInterval(batch, 0, 100)
          /\ Val(report).very_good = CountInterval(batch, 100, 1000)
          /\ Val(report).good = CountInterval(batch, 1000, 100000)
          /\ Val(report).poor = Cardinality({ i \in 1..Len(batch) : batch[i].ransac_error >= 100000 })
          /\ Val(report).excellent + Val(report).very_good + Val(report).good + Val(report).poor
                = Len(batch)

\* C6 witness: the batch [4.1, 65.0, 9999.0, 15.0, 80000.0] was reported as
\* excellent 1, very_good 2, good 1, poor 1.
C6_Witness ==
    /\ pc = "reported"
    /\ Len(batch) = 5
    /\ [i \in 1..5 |-> batch[i].ransac_error] = <<41, 650, 99990, 150, 800000>>
    /\ report = Some([excellent |-> 1, very_good |-> 2, good |-> 1, poor |-> 1])

\* C6 witness of the boundaries: 10.0, 100.0 and 10000.0 in one batch, counted
\* very_good, good and poor.
C6_BoundaryWitness ==
    /\ pc = "reported"
    /\ Len(batch) = 3
    /\ [i \in 1..3 |-> batch[i].ransac_error] = <<100, 1000, 100000>>
    /\ [i \in 1..3 |-> batch[i].status] = <<"very_good", "good", "poor">>

----------------------------------------------------------------------------
(* Properties of orientation detection and method scoring, checked under    *)
(* SpecScore, stated on the mesh's own extents, counts and arrays           *)

B(b) == IF b THEN 1 ELSE 0

W == mesh.width
H == mesh.height
D == mesh.depth
Largest == Max3(W, H, D)
Smallest == Min3(W, H, D)
DiagonalSq == W * W + H * H + D * D
HasBoth ==
    /\ \E i \in 1..Len(mesh.arrays) : ArrayIsColor(mesh.arrays[i])
    /\ \E i \in 1..Len(mesh.arrays) : ArrayIsNormal(mesh.arrays[i])

\* C7: for every triple of extents detect_anatomical_features returns exactly
\* one orientation: standard (nose +Z, up +Y) iff height > width > depth, z_up
\* (nose +X, up +Z) iff depth > height > width, x_up (nose +Y, up +X) iff
\* width > depth > height, and unknown (nose +Z, up +Y) for every other
\* ordering, ties included.
C7_OrientationTable ==
    anatomy # None =>
        LET a == Val(anatomy)
            std == H > W /\ W > D
            zup == D > H /\ H > W
            xup == W > D /\ D > H
        IN /\ a.orientation_guess \in {"standard", "z_up", "x_up", "unknown"}
           /\ a.orientation_guess = "standard" <=> std
           /\ a.orientation_guess = "z_up" <=> zup
           /\ a.orientation_guess = "x_up" <=> xup
           /\ a.orientation_guess = "unknown" <=> ~(std \/ zup \/ xup)
           /\ std => (a.estimated_nose_dir = <<0, 0, 1>> /\ a.estimated_up_dir = <<0, 1, 0>>)
           /\ zup => (a.estimated_nose_dir = <<1, 0, 0>> /\ a.estimated_up_dir = <<0, 0, 1>>)
           /\ xup => (a.estimated_nose_dir = <<0, 1, 0>> /\ a.estimated_up_dir = <<1, 0, 0>>)
           /\ ~(std \/ zup \/ xup) =>
                 (a.estimated_nose_dir = <<0, 0, 1>> /\ a.estimated_up_dir = <<0, 1, 0>>)

\* C7 witness: a tie between the two largest extents (height = width > depth)
\* was classified unknown with the default directions.
C7_Witness ==
    /\ anatomy # None
    /\ H = W /\ W > D
    /\ Val(anatomy).orientation_guess = "unknown"
    /\ Val(anatomy).estimated_nose_dir = <<0, 0, 1>>

\* C8: select_optimal_method returns anatomical if and only if
\* anatomical_score >= ultimate_score, and ultimate otherwise; equal scores
\* select anatomical.
C8_DecisionRule ==
    scoring # None =>
        LET sc == Val(scoring)
        IN /\ sc.selected_method \in {"anatomical", "ultimate"}
           /\ sc.selected_method = "anatomical" <=> sc.anatomical_score >= sc.ultimate_score
           /\ applied = Some(sc.selected_method)

\* C8 witness: a mesh scored with equal, non-zero scores was given to anatomical.
C8_Witness ==
    /\ scoring # None
    /\ Val(scoring).anatomical_score = Val(scoring).ultimate_score
    /\ Val(scoring).selected_method = "anatomical"

\* C9 as stated: the scores are the sums of the rows of the rule table:
\* anatomical +3 and +2 when the orientation is standard and max aspect ratio
\* < 1.5, +1 when density > 100, +2 with color and normal channels, +1 when the
\* diagonal is in [100, 300]; ultimate +3 when max aspect ratio > 3.0, +1 when
\* density < 10, +1 without attribute channels, +2 when the diagonal is > 500
\* or < 50; nothing else changes a score.
C9_Original ==
    scoring # None =>
        /\ Val(scoring).anatomical_score =
              5 * B((H > W /\ W > D) /\ 2 * Largest < 3 * Smallest)
              + B(mesh.n_points > 100 * DiagonalSq)
              + 2 * B(HasBoth)
              + B(10000 <= DiagonalSq /\ DiagonalSq <= 90000)
        /\ Val(scoring).ultimate_score =
              3 * B(Largest > 3 * Smallest)
              + B(mesh.n_points < 10 * DiagonalSq)
              + B(Len(mesh.arrays) = 0)
              + 2 * B(DiagonalSq > 250000 \/ DiagonalSq < 2500)

\* C9 amended: for every mesh with positive extents the scores are the sums
\* of the rows of this table: anatomical +3 when height > width > depth and
\* max aspect ratio < 2.0, and ultimate +2 when not; anatomical +2 when max
\* aspect ratio < 1.5, whatever the orientation; ultimate +3 when max aspect
\* ratio > 3.0; anatomical +1 when density > 100; ultimate +1 when density
\* < 10; anatomical +2 with color and normal channels; ultimate +1 without
\* arrays; anatomical +1 when the diagonal is strictly between 100 and 300;
\* ultimate +2 when the diagonal is > 500 or < 50; nothing else changes a score.
C9_RuleTable ==
    scoring # None =>
        /\ Val(scoring).anatomical_score =
              3 * B((H > W /\ W > D) /\ Largest < 2 * Smallest)
              + 2 * B(2 * Largest < 3 * Smallest)
              + B(mesh.n_points > 100 * DiagonalSq)
              + 2 * B(HasBoth)
              + B(10000 < DiagonalSq /\ DiagonalSq < 90000)
        /\ Val(scoring).ultimate_score =
              2 * B(~((H > W /\ W > D) /\ Largest < 2 * Smallest))
              + 3 * B(Largest > 3 * Smallest)
              + B(mesh.n_points < 10 * DiagonalSq)
              + B(Len(mesh.arrays) = 0)
              + 2 * B(DiagonalSq > 250000 \/ DiagonalSq < 2500)

\* C9 witness: a standard face of aspect ratio 1.875 (width 110, height 150,
\* depth 80) with colors and normals scored anatomical 3 + 2 + 1 (orientation,
\* data, size), without the good-proportions increment, and ultimate 0.
C9_Witness ==
    /\ scoring # None
    /\ <<W, H, D>> = <<110, 150, 80>>
    /\ HasBoth
    /\ mesh.n_points = 500000
    /\ Val(scoring).anatomical_score = 6
    /\ Val(scoring).ultimate_score = 0

IsScenarioA == <<W, H, D>> = <<50, 190, 40>>

\* C10 as stated: the mesh with extents width 50, height 190, depth 40 is
\* classified standard and, whatever its vertex count and arrays, scores
\* anatomical_score > ultimate_score and is given to anatomical.
C10_Original ==
    IsScenarioA =>
        /\ anatomy # None => Val(anatomy).orientation_guess = "standard"
        /\ scoring # None =>
              /\ Val(scoring).anatomical_score > Val(scoring).ultimate_score
              /\ Val(scoring).selected_method = "anatomical"

\* C10 amended: the mesh with extents width 50, height 190, depth 40 is
\* classified standard by detect_anatomical_features, but its max aspect
\* ratio 4.75 makes the scorer count it non-standard and extreme: whatever its
\* vertex count and arrays, ultimate_score >= 5 > 4 >= anatomical_score and
\* the ultimate method is selected.
C10_ScenarioASelectsUltimate ==
    IsScenarioA =>
        /\ anatomy # None => Val(anatomy).orientation_guess = "standard"
        /\ scoring # None =>
              /\ Val(scoring).ultimate_score >= 5
              /\ Val(scoring).anatomical_score <= 4
              /\ Val(scoring).selected_method = "ultimate"
              /\ applied = Some("ultimate")

\* C10 witness: scenario A at its best for anatomical (dense, colors and
\* normals) was classified standard and still given to ultimate.
C10_Witness ==
    /\ IsScenarioA
    /\ anatomy # None /\ Val(anatomy).orientation_guess = "standard"
    /\ scoring # None
    /\ Val(scoring).anatomical_score = 4
    /\ Val(scoring).selected_method = "ultimate"

IsScenarioB == <<W, H, D>> = <<500, 30, 10>>

\* C11: the mesh with extents width 500, height 30, depth 10 scores
\* ultimate_score > anatomical_score whatever its vertex count and arrays
\* (non-standard +2, ratio 50 > 3.0 +3, diagonal 501 > 500 +2 against at most
\* +1 density and +2 data), and the ultimate method is selected and applied.
C11_ScenarioBSelectsUltimate ==
    (IsScenarioB /\ scoring # None) =>
        /\ Val(scoring).ultimate_score > Val(scoring).anatomical_score
        /\ Val(scoring).selected_method = "ultimate"
        /\ applied = Some("ultimate")

\* C11 witness: scenario B at its best for anatomical (dense, colors and
\* normals: anatomical 3) was scored ultimate 7 and given to ultimate.
C11_Witness ==
    /\ IsScenarioB
    /\ scoring # None
    /\ HasBoth
    /\ mesh.n_points = 30000000
    /\ Val(scoring).anatomical_score = 3
    /\ Val(scoring).ultimate_score = 7
    /\ Val(scoring).selected_method = "ultimate"

\* the anatomical score without the size row
AnatomicalBase ==
    3 * B((H > W /\ W > D) /\ Largest < 2 * Smallest)
    + 2 * B(2 * Largest < 3 * Smallest)
    + B(mesh.n_points > 100 * DiagonalSq)
    + 2 * B(HasBoth)

\* C13 as stated: a mesh whose diagonal lies in the closed interval
\* [100, 300], exactly 100 and exactly 300 included, receives the
\* anatomical += 1 size increment.
C13_Original ==
    (scoring # None /\ 10000 <= DiagonalSq /\ DiagonalSq <= 90000) =>
        Val(scoring).anatomical_score = AnatomicalBase + 1

\* C13 amended: a mesh receives the anatomical += 1 size increment exactly
\* when its diagonal lies strictly between 100 and 300; a diagonal of exactly
\* 100 or exactly 300 receives no size increment for either method.
C13_OpenInterval ==
    scoring # None =>
        /\ Val(scoring).anatomical_score
              = AnatomicalBase + B(10000 < DiagonalSq /\ DiagonalSq < 90000)
        /\ DiagonalSq \in {10000, 90000} =>
              /\ Val(scoring).anatomical_score = AnatomicalBase
              /\ Val(scoring).ultimate_score =
                    2 * B(~((H > W /\ W > D) /\ Largest < 2 * Smallest))
                    + 3 * B(Largest > 3 * Smallest)
                    + B(mesh.n_points < 10 * DiagonalSq)
                    + B(Len(mesh.arrays) = 0)

\* C13 witness: the mesh 36 x 48 x 80, diagonal exactly 100, was scored
\* without the size increment (anatomical 0 with no arrays and low density).
C13_Witness ==
    /\ scoring # None
    /\ <<W, H, D>> = <<36, 48, 80>>
    /\ DiagonalSq = 10000
    /\ mesh.arrays = <<>>
    /\ Val(scoring).anatomical_score = 0

----------------------------------------------------------------------------
(* Repeated scoring: one HybridScaleFreeAligner, select_optimal_method      *)
(* called on the analysis of one PLY file after another                     *)

MaxCalls == 2

\* two families of extents, each sharing one diagonal (14025 and 61475 squared)
\* and spanning the aspect-ratio bands, with standard-face orderings among them
MonoExtents ==
    { <<10, 70, 95>>, <<20, 20, 115>>, <<20, 80, 85>>, <<35, 80, 80>>,
      <<50, 50, 95>>, <<65, 70, 70>>,
      <<15, 175, 175>>, <<95, 135, 185>>, <<135, 185, 95>>, <<145, 165, 115>> }

MonoArrays ==
    { <<>>,
      <<[n_components |-> 3, name |-> "Colors"], [n_components |-> 3, name |-> "Normals"]>> }

MonoMeshes ==
    { [width |-> e[1], height |-> e[2], depth |-> e[3], n_points |-> n, arrays |-> a] :
        e \in MonoExtents, n \in {1000, 5000000}, a \in MonoArrays }

InitMono ==
    /\ mesh = [width |-> 65, height |-> 70, depth |-> 70, n_points |-> 1000, arrays |-> <<>>]
    /\ mode = "scorer"
    /\ pc = "start"
    /\ Idle

\* analyze_ply_characteristics(ply_file) followed by select_optimal_method(analysis)
select_optimal_method_call(m) ==
    /\ mode = "scorer"
    /\ Len(calls) < MaxCalls
    /\ mesh' = m
    /\ LET analysis == analyze_ply_characteristics(m)
       IN calls' = Append(calls, [analysis |-> analysis, result |-> select_optimal_method(analysis)])
    /\ UNCHANGED <<mode, pc, anatomy, scoring, applied, result, attempts, file_index, batch, report, rotation, alignment, disk>>

NextMono == \E m \in MonoMeshes : select_optimal_method_call(m)

SpecMono == InitMono /\ [][NextMono]_vars

\* the two analyses agree on every descriptor the scorer reads apart from the
\* maximum aspect ratio and the standard-face flag derived from it
SameButRatio(a, b) ==
    /\ a.n_points = b.n_points
    /\ a.diagonal_sq = b.diagonal_sq
    /\ a.has_colors = b.has_colors
    /\ a.has_normals = b.has_normals
    /\ a.n_arrays = b.n_arrays

RatioGreater(a, b) == a.ratio_num * b.ratio_den > b.ratio_num * a.ratio_den

C12_RepeatWitness ==
    /\ Len(calls) = 2
    /\ calls[1].analysis = calls[2].analysis
    /\ calls[1].result = calls[2].result
    /\ calls[1].result.ultimate_score > 0

----------------------------------------------------------------------------
(* Rigid geometry: AnatomicalAligner.calculate_rotation_matrix and the      *)
(* transforms built from it.  A vector or matrix is kept exactly, as        *)
(* integer entries x over one common denominator q > 0 in lowest terms;     *)
(* q = 0 stands for NaN in every component, which is what 0.0 / 0.0 on a    *)
(* numpy array yields and what every later product and sum propagates.      *)

Abs(a) == IF a < 0 THEN -a ELSE a

RECURSIVE GCD(_, _)
GCD(a, b) == IF b = 0 THEN Abs(a) ELSE GCD(b, a % Abs(b))

Dot(u, w) == u[1] * w[1] + u[2] * w[2] + u[3] * w[3]

IsSquare(n) == \E k \in 0..n : k * k = n
Sqrt(n) == CHOOSE k \in 0..n : k * k = n

NaN3 == [x |-> <<0, 0, 0>>, q |-> 0]
IsNaN(v) == v.q = 0

\* a numpy integer or float array holding whole numbers
Vec(x) == [x |-> x, q |-> 1]

ReduceVec(v) ==
    IF v.q = 0 THEN NaN3
    ELSE LET g == GCD(GCD(GCD(v.x[1], v.x[2]), v.x[3]), v.q)
         IN [x |-> <<v.x[1] \div g, v.x[2] \div g, v.x[3] \div g>>, q |-> v.q \div g]

\* v / np.linalg.norm(v): the norm of x/q is Sqrt(x.x)/q, so the quotient is x/Sqrt(x.x)
normalize(v) ==
    IF IsNaN(v) THEN NaN3
    ELSE ReduceVec([x |-> v.x, q |-> Sqrt(Dot(v.x, v.x))])

\* np.cross(u, w)
cross(u, w) ==
    ReduceVec([x |-> << u.x[2] * w.x[3] - u.x[3] * w.x[2],
                        u.x[3] * w.x[1] - u.x[1] * w.x[3],
                        u.x[1] * w.x[2] - u.x[2] * w.x[1] >>,
               q |-> u.q * w.q])

NaN33 == [m |-> << <<0, 0, 0>>, <<0, 0, 0>>, <<0, 0, 0>> >>, q |-> 0]

ReduceMat(a) ==
    IF a.q = 0 THEN NaN33
    ELSE LET RowGCD(r) == GCD(GCD(r[1], r[2]), r[3])
             g == GCD(GCD(GCD(RowGCD(a.m[1]), RowGCD(a.m[2])), RowGCD(a.m[3])), a.q)
         IN [m |-> [i \in 1..3 |-> [j \in 1..3 |-> a.m[i][j] \div g]], q |-> a.q \div g]

\* np.column_stack([c1, c2, c3]); a NaN column is kept as a NaN matrix because
\* the product below sums over every column and so is NaN in every entry
column_stack(c1, c2, c3) ==
    ReduceMat([m |-> [i \in 1..3 |-> << c1.x[i] * c2.q * c3.q,
                                        c2.x[i] * c1.q * c3.q,
                                        c3.x[i] * c1.q * c2.q >>],
               q |-> c1.q * c2.q * c3.q])

\* a @ b.T
matmul_T(a, b) ==
    ReduceMat([m |-> [i \in 1..3 |-> [j \in 1..3 |->
                        a.m[i][1] * b.m[j][1] + a.m[i][2] * b.m[j][2] + a.m[i][3] * b.m[j][3]]],
               q |-> a.q * b.q])

\* mutant: the product is taken the other way round
calculate_rotation_matrix_inverse(from_nose, from_up, to_nose, to_up) ==
    LET from_nose_n == normalize(from_nose)
        from_up_n == normalize(from_up)
        to_nose_n == normalize(to_nose)
        to_up_n == normalize(to_up)
        from_right == normalize(cross(from_up_n, from_nose_n))
        from_up_o == cross(from_nose_n, from_right)
        to_right == normalize(cross(to_up_n, to_nose_n))
        to_up_o == cross(to_nose_n, to_right)
        from_matrix == column_stack(from_right, from_up_o, from_nose_n)
        to_matrix == column_stack(to_right, to_up_o, to_nose_n)
    IN matmul_T(from_matrix, to_matrix)

\* mutant: the up vectors are not re-derived from nose and right
calculate_rotation_matrix_no_orthogonalise(from_nose, from_up, to_nose, to_up) ==
    LET from_nose_n == normalize(from_nose)
        from_up_n == normalize(from_up)
        to_nose_n == normalize(to_nose)
        to_up_n == normalize(to_up)
        from_right == normalize(cross(from_up_n, from_nose_n))
        to_right == normalize(cross(to_up_n, to_nose_n))
        from_matrix == column_stack(from_right, from_up_n, from_nose_n)
        to_matrix == column_stack(to_right, to_up_n, to_nose_n)
    IN matmul_T(to_matrix, from_matrix)

calculate_rotation_matrix(from_nose, from_up, to_nose, to_up) ==
    LET from_nose_n == normalize(from_nose)
        from_up_n == normalize(from_up)
        to_nose_n == normalize(to_nose)
        to_up_n == normalize(to_up)
        from_right == normalize(cross(from_up_n, from_nose_n))
        from_up_o == cross(from_nose_n, from_right)
        to_right == normalize(cross(to_up_n, to_nose_n))
        to_up_o == cross(to_nose_n, to_right)
        from_matrix == column_stack(from_right, from_up_o, from_nose_n)
        to_matrix == column_stack(to_right, to_up_o, to_nose_n)
    IN matmul_T(to_matrix, from_matrix)

anatomical_standard ==
    [center |-> <<0, 0, 0>>, nose_direction |-> <<0, 0, 1>>, up_direction |-> <<0, 1, 0>>]

\* direction vectors handed to the solver: the signed axes, a non-unit axis,
\* and 3-4-5 directions, whose norms are whole numbers
RotationVectors ==
    { <<1, 0, 0>>, <<0, 1, 0>>, <<0, 0, 1>>, <<-1, 0, 0>>, <<0, -1, 0>>, <<0, 0, -1>>,
      <<0, 0, 2>>, <<0, 3, 4>>, <<0, 4, -3>>, <<3, 0, 4>>, <<4, 3, 0>> }

\* (nose, up) pairs whose right vector has a rational norm too; the parallel
\* pairs, whose right vector is the zero vector, are among them
RotationPairs ==
    { p \in RotationVectors \X RotationVectors :
        LET right == cross(normalize(Vec(p[2])), normalize(Vec(p[1])))
        IN IsSquare(Dot(right.x, right.x)) }

\* target pairs: the anatomical standard, other axis frames, a slanted frame,
\* a pair that is not perpendicular, and parallel pairs
RotationTargets ==
    { <<anatomical_standard.nose_direction, anatomical_standard.up_direction>>,
      <<<<1, 0, 0>>, <<0, 0, 1>>>>, <<<<0, 0, -1>>, <<0, 1, 0>>>>,
      <<<<0, 3, 4>>, <<0, 4, -3>>>>, <<<<0, 3, 4>>, <<0, 0, 1>>>>,
      <<<<0, 0, 1>>, <<0, 0, 1>>>>, <<<<0, 1, 0>>, <<0, -1, 0>>>> }

\* the function as a caller sees it: the returned matrix, and the exception
\* raised if any (numpy divides 0.0 by 0.0 without raising)
calculate_rotation_matrix_call(from_pair, to_pair) ==
    /\ mode = "rotation_solver"
    /\ rotation = None
    /\ rotation' = Some([from_nose |-> from_pair[1], from_up |-> from_pair[2],
                         to_nose |-> to_pair[1], to_up |-> to_pair[2],
                         raised |-> None,
                         rotation_matrix |->
                             calculate_rotation_matrix(Vec(from_pair[1]), Vec(from_pair[2]),
                                                       Vec(to_pair[1]), Vec(to_pair[2]))])
    /\ UNCHANGED <<mesh, mode, pc, anatomy, scoring, applied, result, attempts, file_index, batch, report, calls, alignment, disk>>

MaxExtent == 3

GeoOffsets == { <<0, 0, 0>>, <<5, -7, 2>> }

\* three vertices spanning a box of extents e with one corner at o
GeoMeshes ==
    { [vertices |-> << o,
                       <<o[1] + e[1], o[2] + e[2], o[3] + e[3]>>,
                       <<o[1] + e[1], o[2], o[3]>> >>] :
        e \in (0..MaxExtent) \X (0..MaxExtent) \X (0..MaxExtent), o \in GeoOffsets }

CoordMin(vs, k) == CHOOSE a \in {vs[i][k] : i \in DOMAIN vs} : \A i \in DOMAIN vs : a <= vs[i][k]
CoordMax(vs, k) == CHOOSE a \in {vs[i][k] : i \in DOMAIN vs} : \A i \in DOMAIN vs : a >= vs[i][k]

\* mesh.GetBounds()
GetBounds(vs) ==
    << CoordMin(vs, 1), CoordMax(vs, 1), CoordMin(vs, 2), CoordMax(vs, 2),
       CoordMin(vs, 3), CoordMax(vs, 3) >>

RECURSIVE CoordSum(_, _)
CoordSum(vs, k) == IF vs = <<>> THEN 0 ELSE vs[1][k] + CoordSum(Tail(vs), k)

\* np.mean(vertices, axis=0)
mean(vs) == ReduceVec([x |-> <<CoordSum(vs, 1), CoordSum(vs, 2), CoordSum(vs, 3)>>, q |-> Len(vs)])

\* what analyze_ply_anatomy returns for a mesh
ply_analysis(m) ==
    LET bounds == GetBounds(m.vertices)
    IN [vertices |-> m.vertices,
        center |-> mean(m.vertices),
        bounds |-> bounds,
        anatomy |-> detect_anatomical_features(bounds[2] - bounds[1], bounds[4] - bounds[3],
                                               bounds[6] - bounds[5])]

\* exact arithmetic on vectors; a scalar is n over d
NegVec(v) == [x |-> <<-v.x[1], -v.x[2], -v.x[3]>>, q |-> v.q]

AddVec(u, w) ==
    ReduceVec([x |-> << u.x[1] * w.q + w.x[1] * u.q,
                        u.x[2] * w.q + w.x[2] * u.q,
                        u.x[3] * w.q + w.x[3] * u.q >>,
               q |-> u.q * w.q])

ScaleVec(sc, v) ==
    ReduceVec([x |-> <<sc.n * v.x[1], sc.n * v.x[2], sc.n * v.x[3]>>, q |-> sc.d * v.q])

MatVec(a, v) ==
    ReduceVec([x |-> << Dot(a.m[1], v.x), Dot(a.m[2], v.x), Dot(a.m[3], v.x) >>,
               q |-> a.q * v.q])

target_face_height == 190

\* target_face_height / abs(current_face_height) raises on a zero Y range
calculate_anatomical_transform(analysis) ==
    LET current_center == analysis.center
        anatomy_ == analysis.anatomy
        translation == NegVec(current_center)
        rotation_matrix ==
            calculate_rotation_matrix(Vec(anatomy_.estimated_nose_dir), Vec(anatomy_.estimated_up_dir),
                                      Vec(anatomical_standard.nose_direction),
                                      Vec(anatomical_standard.up_direction))
        current_face_height == analysis.bounds[4] - analysis.bounds[3]
    IN IF current_face_height = 0 THEN [raised |-> Some("ZeroDivisionError"), params |-> None]
       ELSE LET g == GCD(target_face_height, Abs(current_face_height))
            IN [raised |-> None,
                params |-> Some([translation |-> translation,
                                 rotation_matrix |-> rotation_matrix,
                                 scale_factor |-> [n |-> target_face_height \div g,
                                                   d |-> Abs(current_face_height) \div g],
                                 anatomy_guess |-> anatomy_.orientation_guess])]

\* mutant: the scale-free parameters report the face-height scale
calculate_anatomical_transform_no_scale_rescaled(analysis) ==
    LET height == analysis.bounds[4] - analysis.bounds[3]
    IN [raised |-> None,
        params |-> Some([translation |-> AddVec(Vec(anatomical_standard.center), NegVec(analysis.center)),
                         rotation_matrix |->
                             calculate_rotation_matrix(Vec(analysis.anatomy.estimated_nose_dir),
                                                       Vec(analysis.anatomy.estimated_up_dir),
                                                       Vec(anatomical_standard.nose_direction),
                                                       Vec(anatomical_standard.up_direction)),
                         scale_factor |-> IF height = 0 THEN [n |-> 1, d |-> 1]
                                          ELSE [n |-> target_face_height, d |-> height],
                         anatomy_guess |-> analysis.anatomy.orientation_guess])]

calculate_anatomical_transform_no_scale(analysis) ==
    LET anatomy_ == analysis.anatomy
        current_center == analysis.center
        target_center == Vec(anatomical_standard.center)
        translation == AddVec(target_center, NegVec(current_center))
        rotation_matrix ==
            calculate_rotation_matrix(Vec(anatomy_.estimated_nose_dir), Vec(anatomy_.estimated_up_dir),
                                      Vec(anatomical_standard.nose_direction),
                                      Vec(anatomical_standard.up_direction))
    IN [raised |-> None,
        params |-> Some([translation |-> translation,
                         rotation_matrix |-> rotation_matrix,
                         scale_factor |-> [n |-> 1, d |-> 1],
                         anatomy_guess |-> anatomy_.orientation_guess])]

\* vtkTransform: the operations in the order they were concatenated, and the
\* multiplication mode
Reverse(ops) == [i \in 1..Len(ops) |-> ops[Len(ops) + 1 - i]]

\* mutant: the default pre-multiply mode, in which the last operation
\* concatenated acts on the point first
op_order_pre_multiply(t) == Reverse(t.ops)

\* the order in which the operations act on a point
op_order(t) == IF t.post_multiply THEN t.ops ELSE Reverse(t.ops)

ApplyOp(o, p) ==
    IF o.op = "Translate" THEN AddVec(p, o.arg)
    ELSE IF o.op = "Concatenate" THEN MatVec(o.arg, p)
    ELSE ScaleVec(o.arg, p)

RECURSIVE ApplyOps(_, _)
ApplyOps(ops, p) == IF ops = <<>> THEN p ELSE ApplyOps(Tail(ops), ApplyOp(ops[1], p))

TransformPoint(t, p) == ApplyOps(op_order(t), p)

\* PostMultiply(); Translate(translation); Concatenate(rotation); Scale(scale)
anatomical_vtk_transform(params) ==
    [post_multiply |-> TRUE,
     ops |-> << [op |-> "Translate", arg |-> params.translation],
                [op |-> "Concatenate", arg |-> params.rotation_matrix],
                [op |-> "Scale", arg |-> params.scale_factor] >>]

\* PostMultiply(); Translate(translation); Concatenate(rotation)
scale_free_vtk_transform(params) ==
    [post_multiply |-> TRUE,
     ops |-> << [op |-> "Translate", arg |-> params.translation],
                [op |-> "Concatenate", arg |-> params.rotation_matrix] >>]

\* the rest of apply_*_alignment once the parameters are there, or the
\* exception that ended it
alignment_outcome(m, tp, t) ==
    IF tp.raised # None
    THEN [raised |-> tp.raised, transform_params |-> None, vtk_transform |-> None,
          transformed |-> None, written |-> FALSE]
    ELSE [raised |-> None, transform_params |-> tp.params, vtk_transform |-> Some(t),
          transformed |-> Some([i \in DOMAIN m.vertices |-> TransformPoint(t, Vec(m.vertices[i]))]),
          written |-> TRUE]

apply_anatomical_alignment ==
    /\ mode = "anatomical_aligner"
    /\ alignment = None
    /\ LET analysis == ply_analysis(mesh)
           tp == calculate_anatomical_transform(analysis)
       IN /\ anatomy' = Some(analysis.anatomy)
          /\ alignment' = Some(alignment_outcome(mesh, tp,
                                   IF tp.raised # None THEN None
                                   ELSE anatomical_vtk_transform(Val(tp.params))))
    /\ UNCHANGED <<mesh, mode, pc, scoring, applied, result, attempts, file_index, batch, report, calls, rotation, disk>>

apply_scale_free_alignment ==
    /\ mode = "scale_free_aligner"
    /\ alignment = None
    /\ LET analysis == ply_analysis(mesh)
           tp == calculate_anatomical_transform_no_scale(analysis)
       IN /\ anatomy' = Some(analysis.anatomy)
          /\ alignment' = Some(alignment_outcome(mesh, tp, scale_free_vtk_transform(Val(tp.params))))
    /\ UNCHANGED <<mesh, mode, pc, scoring, applied, result, attempts, file_index, batch, report, calls, rotation, disk>>

GeomModes == {"rotation_solver", "anatomical_aligner", "scale_free_aligner"}

InitGeom ==
    /\ mode \in GeomModes
    /\ mesh \in GeoMeshes
    /\ mode = "rotation_solver" => mesh.vertices[1] = mesh.vertices[2] /\ mesh.vertices[1] = <<0, 0, 0>>
    /\ pc = "start"
    /\ Idle

NextGeom ==
    \/ \E from_pair \in RotationPairs, to_pair \in RotationTargets :
           calculate_rotation_matrix_call(from_pair, to_pair)
    \/ apply_anatomical_alignment
    \/ apply_scale_free_alignment

SpecGeom == InitGeom /\ [][NextGeom]_vars

----------------------------------------------------------------------------
(* Properties of the rotation solver and the transforms, under SpecGeom *)

\* the (nose, up) pairs of the four orientation hypotheses
HypothesisPairs ==
    { <<f.estimated_nose_dir, f.estimated_up_dir>> :
        f \in { detect_anatomical_features(r[1], r[2], r[3]) :
                  r \in { <<2, 3, 1>>, <<1, 2, 3>>, <<3, 1, 2>>, <<1, 1, 1>> } } }

TargetPair == <<anatomical_standard.nose_direction, anatomical_standard.up_direction>>

Parallel(pair) == cross(Vec(pair[2]), Vec(pair[1])).x = <<0, 0, 0>>

Maps(a, from, to) == MatVec(a, normalize(Vec(from))) = normalize(Vec(to))

Identity33 == [m |-> << <<1, 0, 0>>, <<0, 1, 0>>, <<0, 0, 1>> >>, q |-> 1]

Det(m) ==
      m[1][1] * (m[2][2] * m[3][3] - m[2][3] * m[3][2])
    - m[1][2] * (m[2][1] * m[3][3] - m[2][3] * m[3][1])
    + m[1][3] * (m[2][1] * m[3][2] - m[2][2] * m[3][1])

\* R Rt = I and det R = +1, for R = m / q
IsProperRotation(a) ==
    /\ a.q > 0
    /\ \A i, j \in 1..3 : Dot(a.m[i], a.m[j]) = IF i = j THEN a.q * a.q ELSE 0
    /\ Det(a.m) = a.q * a.q * a.q

\* C14: for each (nose, up) pair of the orientation hypotheses and the
\* anatomical target pair (nose +Z, up +Y), the matrix returned by
\* calculate_rotation_matrix maps from_nose to to_nose and from_up to to_up;
\* the same holds of the rotation inside every transform the aligners build.
C14_MapsNoseAndUp ==
    /\ ( /\ rotation # None
         /\ <<Val(rotation).from_nose, Val(rotation).from_up>> \in HypothesisPairs
         /\ <<Val(rotation).to_nose, Val(rotation).to_up>> = TargetPair )
       => /\ Maps(Val(rotation).rotation_matrix, Val(rotation).from_nose, Val(rotation).to_nose)
          /\ Maps(Val(rotation).rotation_matrix, Val(rotation).from_up, Val(rotation).to_up)
    /\ (alignment # None /\ Val(alignment).transform_params # None)
       => /\ Maps(Val(Val(alignment).transform_params).rotation_matrix,
                  Val(anatomy).estimated_nose_dir, anatomical_standard.nose_direction)
          /\ Maps(Val(Val(alignment).transform_params).rotation_matrix,
                  Val(anatomy).estimated_up_dir, anatomical_standard.up_direction)

C14_Witness ==
    /\ rotation # None
    /\ Val(rotation).from_nose = <<1, 0, 0>> /\ Val(rotation).from_up = <<0, 0, 1>>
    /\ <<Val(rotation).to_nose, Val(rotation).to_up>> = TargetPair
    /\ Val(rotation).rotation_matrix = [m |-> << <<0, 1, 0>>, <<0, 0, 1>>, <<1, 0, 0>> >>, q |-> 1]

\* C15: for every non-parallel from pair and non-parallel to pair the matrix
\* returned by calculate_rotation_matrix is a proper rotation, R Rt = I and
\* det R = +1, exactly.
C15_ProperRotation ==
    /\ ( /\ rotation # None
         /\ ~Parallel(<<Val(rotation).from_nose, Val(rotation).from_up>>)
         /\ ~Parallel(<<Val(rotation).to_nose, Val(rotation).to_up>>) )
       => IsProperRotation(Val(rotation).rotation_matrix)
    /\ (alignment # None /\ Val(alignment).transform_params # None)
       => IsProperRotation(Val(Val(alignment).transform_params).rotation_matrix)

\* a pair that is neither axis-aligned nor perpendicular
C15_Witness ==
    /\ rotation # None
    /\ Val(rotation).from_nose = <<0, 3, 4>> /\ Val(rotation).from_up = <<0, 0, 1>>
    /\ <<Val(rotation).to_nose, Val(rotation).to_up>> = TargetPair
    /\ Val(rotation).rotation_matrix.q = 5
    /\ IsProperRotation(Val(rotation).rotation_matrix)

\* C16: when from_up and from_nose, or to_up and to_nose, are parallel,
\* calculate_rotation_matrix signals OrientationAmbiguous and returns the
\* identity rotation, never a matrix containing NaN.
C16_ParallelHandled ==
    ( /\ rotation # None
      /\ \/ Parallel(<<Val(rotation).from_nose, Val(rotation).from_up>>)
         \/ Parallel(<<Val(rotation).to_nose, Val(rotation).to_up>>) )
    => /\ Val(rotation).raised = Some("OrientationAmbiguous")
       /\ Val(rotation).rotation_matrix = Identity33
       /\ ~IsNaN(Val(rotation).rotation_matrix)

\* what the code does with a parallel pair: no exception, every entry NaN
C16_ParallelGivesNaN ==
    ( /\ rotation # None
      /\ \/ Parallel(<<Val(rotation).from_nose, Val(rotation).from_up>>)
         \/ Parallel(<<Val(rotation).to_nose, Val(rotation).to_up>>) )
    => /\ Val(rotation).raised = None
       /\ IsNaN(Val(rotation).rotation_matrix)

Bounds == GetBounds(mesh.vertices)
YRange == Bounds[4] - Bounds[3]

\* zero bounding diagonal: all vertices coincide
Degenerate == Bounds[1] = Bounds[2] /\ Bounds[3] = Bounds[4] /\ Bounds[5] = Bounds[6]

Center == mean(mesh.vertices)
Origin == Vec(anatomical_standard.center)

\* C17: a mesh with zero bounding diagonal is rejected with a
\* GeometryDegenerate error before orientation classification runs, in normal
\* and in scale-preserving mode, and no transform or output mesh is produced.
C17_DegenerateRejected ==
    (alignment # None /\ Degenerate) =>
        /\ Val(alignment).raised = Some("GeometryDegenerate")
        /\ anatomy = None
        /\ Val(alignment).transform_params = None
        /\ Val(alignment).vtk_transform = None
        /\ ~Val(alignment).written

\* what the code does with coincident vertices: it classifies them as
\* "unknown"; the normal mode then divides by the zero Y range, the
\* scale-preserving mode builds the transform and writes the output
C17_DegenerateActual ==
    (alignment # None /\ Degenerate) =>
        /\ anatomy # None /\ Val(anatomy).orientation_guess = "unknown"
        /\ mode = "anatomical_aligner" =>
              /\ Val(alignment).raised = Some("ZeroDivisionError")
              /\ Val(alignment).vtk_transform = None
              /\ ~Val(alignment).written
        /\ mode = "scale_free_aligner" =>
              /\ Val(alignment).raised = None
              /\ Val(alignment).vtk_transform # None
              /\ Val(alignment).written

ActingOps == op_order(Val(Val(alignment).vtk_transform))

DistSq(u, w) ==
    LET dv == AddVec(u, NegVec(w)) IN [n |-> Dot(dv.x, dv.x), d |-> dv.q * dv.q]

SameFraction(a, b) == a.n * b.d = b.n * a.d

\* C19: in scale-preserving mode the scale factor is exactly 1.0 and no scale
\* step is applied, and for every pair of mesh vertices the distance between
\* their images equals the distance between them, whatever the hypothesis.
C19_ScaleFreeIsometry ==
    (mode = "scale_free_aligner" /\ alignment # None) =>
        /\ Val(alignment).raised = None
        /\ Val(Val(alignment).transform_params).scale_factor = [n |-> 1, d |-> 1]
        /\ \A k \in DOMAIN ActingOps : ActingOps[k].op # "Scale"
        /\ \A i, j \in DOMAIN mesh.vertices :
              SameFraction(DistSq(Val(Val(alignment).transformed)[i], Val(Val(alignment).transformed)[j]),
                           DistSq(Vec(mesh.vertices[i]), Vec(mesh.vertices[j])))

C19_Witness ==
    /\ mode = "scale_free_aligner"
    /\ alignment # None
    /\ Val(anatomy).orientation_guess = "x_up"
    /\ Center # Origin
    /\ Val(Val(alignment).transform_params).scale_factor = [n |-> 1, d |-> 1]
    /\ DistSq(Val(Val(alignment).transformed)[1], Val(Val(alignment).transformed)[2]) = [n |-> 14, d |-> 1]
    /\ Val(Val(alignment).transformed)[1] # Vec(mesh.vertices[1])

----------------------------------------------------------------------------
(* Unavailable attempts, under Spec *)

Unavailable(i) == ~attempts[i].outcome.success
Unforced == mode \in {"suite", "processor"}

\* the entry the result keeps for a method, None when it keeps none
RecordedFor(method) ==
    IF mode = "suite" THEN
        IF method = "anatomical" THEN Val(result).anatomical_result ELSE Val(result).ultimate_result
    ELSE IF \E k \in 1..Len(Val(result).all_results) : Val(result).all_results[k].method = method
         THEN Some(method)
         ELSE None

\* C20: a timeout, a crash and unparseable output are all the same
\* unavailable attempt: whatever the reason, nothing is recorded for the
\* method, the alternate method is attempted next just as after a finite error
\* that was not accepted, and when the orchestrator returns the unavailable
\* method is not the one reported while any attempt with a finite error,
\* however large, is.
C20_UnavailableNeverChosen ==
    /\ \A i \in 1..Len(attempts) : Unavailable(i) => RecordedFor(attempts[i].method) = None
    /\ (Unforced /\ Len(attempts) = 1 /\ Unavailable(1)) =>
          pc = (IF mode = "suite" THEN "ultimate" ELSE "iterating")
    /\ (Unforced /\ Len(attempts) = 2 /\ Unavailable(1)) =>
          attempts[2].method = OtherMethod(attempts[1].method)
    /\ Finished =>
          /\ \A i \in 1..Len(attempts) :
                Unavailable(i) => Val(result).best_method # Some(attempts[i].method)
          /\ \A i \in 1..Len(attempts) :
                (~Unavailable(i) /\ \A j \in 1..Len(attempts) : j # i => Unavailable(j))
                    => /\ Val(result).best_method = Some(attempts[i].method)
                       /\ Val(result).best_ransac = Some(attempts[i].outcome.ransac_error)

\* C20 witness: the predictor timed out on the first method, the alternate
\* returned 50000.0, and the alternate is reported.
C20_Witness ==
    /\ Finished
    /\ Len(attempts) = 2
    /\ Unavailable(1) /\ attempts[1].outcome.error = "Prediction timeout"
    /\ attempts[2].outcome.success /\ attempts[2].outcome.ransac_error = 500000
    /\ Val(result).best_method = Some(attempts[2].method)
    /\ Val(result).best_ransac = Some(500000)

\* the finite attempt came first and the unavailable one second
C20_LateFailureWitness ==
    /\ Finished
    /\ mode = "suite"
    /\ Len(attempts) = 2
    /\ attempts[1].outcome.success /\ attempts[1].outcome.ransac_error = 500000
    /\ Unavailable(2) /\ attempts[2].outcome.error = "Could not extract RANSAC"
    /\ Val(result).best_method = Some("anatomical")

----------------------------------------------------------------------------
(* Runs over a list of files                                                *)
(*   suite_run      ComprehensivePLYTestSuite.run_comprehensive_test        *)
(*   optimizer_run  PoorPerformerOptimizer.optimize_all_poor_performers     *)
(*   batch          BatchAnatomicalProcessor.process_batch (above)          *)
(* file_index counts the files the loop has taken up, batch is the list the *)
(* loop builds, attempts logs what each tester call actually returned.      *)

MaxFiles == 3

RunErrors == {0, 650, 500000}

\* what a tester call of the suite returns
RunOutcomes ==
    { [success |-> FALSE, error |-> r] : r \in {"Prediction timeout", "Could not extract RANSAC"} }
    \cup { [success |-> TRUE, ransac_error |-> e] : e \in RunErrors }

\* test_single_file_hybrid as a function of what its two tester calls return;
\* the second is not called when the first is excellent
test_single_file_hybrid(anatomical_outcome, ultimate_outcome) ==
    LET r1 == IF anatomical_outcome.success
              THEN [suite_result_new EXCEPT
                        !.anatomical_result = Some(attempt_entry(anatomical_outcome.ransac_error))]
              ELSE suite_result_new
    IN IF r1.anatomical_result # None /\ skip_ultimate(Val(r1.anatomical_result))
       THEN [r1 EXCEPT !.best_method = Some("anatomical"),
                       !.best_ransac = Some(Val(r1.anatomical_result).ransac_error),
                       !.best_performance = Some(Val(r1.anatomical_result).status),
                       !.returned = TRUE]
       ELSE LET r2 == IF ultimate_outcome.success
                      THEN [r1 EXCEPT !.ultimate_result =
                                          Some(attempt_entry(ultimate_outcome.ransac_error))]
                      ELSE r1
                best == determine_best(r2.anatomical_result, r2.ultimate_result)
                r3 == [r2 EXCEPT !.best_method = best.best_method,
                                 !.best_ransac = best.best_ransac,
                                 !.best_performance = best.best_performance,
                                 !.needs_optimization = best.failed]
                r4 == IF Truthy(r3.best_ransac) /\ Val(r3.best_ransac) > good_threshold
                      THEN [r3 EXCEPT !.needs_optimization = TRUE]
                      ELSE r3
            IN [r4 EXCEPT !.returned = TRUE]

\* the ultimate tester is reached unless the anatomical error is excellent
ultimate_tested(anatomical_outcome) ==
    ~(anatomical_outcome.success /\ skip_ultimate(attempt_entry(anatomical_outcome.ransac_error)))

\* one pass of the loop of run_comprehensive_test
run_comprehensive_test_file(anatomical_outcome, ultimate_outcome) ==
    /\ mode = "suite_run"
    /\ pc = "start"
    /\ file_index < MaxFiles
    /\ ~ultimate_tested(anatomical_outcome) => ultimate_outcome = anatomical_outcome
    /\ file_index' = file_index + 1
    /\ attempts' =
          attempts
          \o << [file |-> file_index + 1, method |-> "anatomical", outcome |-> anatomical_outcome] >>
          \o (IF ultimate_tested(anatomical_outcome)
              THEN << [file |-> file_index + 1, method |-> "ultimate", outcome |-> ultimate_outcome] >>
              ELSE <<>>)
    /\ batch' = Append(batch, test_single_file_hybrid(anatomical_outcome, ultimate_outcome))
    /\ UNCHANGED <<mesh, mode, pc, anatomy, scoring, applied, result, report, calls, rotation, alignment, disk>>

\* the hard-coded poor_performers list
n_poor_performers == 5

\* what test_ultimate_preprocessing meets: a missing file, an exception or a
\* timeout, output without the error line, or an error
OptimizerOutcomes ==
    { [success |-> FALSE, error |-> r] :
        r \in {"File not found", "Optimization failed", "Could not extract RANSAC error"} }
    \cup { [success |-> TRUE, ransac_error |-> e] : e \in {0, 41, 500000} }

\* the dict test_ultimate_preprocessing returns, None on every failure
test_ultimate_preprocessing(o) ==
    IF o.success
    THEN Some([method |-> "ultimate", ransac_error |-> o.ransac_error,
               status |-> batch_assessment(o.ransac_error),
               optimization_successful |-> o.ransac_error < 1000])
    ELSE None

\* one pass of the loop of optimize_all_poor_performers; the improvement is
\* original_ransac / result['ransac_error'], which raises on an error of 0
optimize_poor_performer(o) ==
    /\ mode = "optimizer_run"
    /\ pc = "start"
    /\ file_index < n_poor_performers
    /\ file_index' = file_index + 1
    /\ attempts' = Append(attempts, [file |-> file_index + 1, method |-> "ultimate", outcome |-> o])
    /\ LET res == test_ultimate_preprocessing(o)
       IN IF res = None THEN
             /\ batch' = batch
             /\ pc' = pc
          ELSE IF Val(res).ransac_error = 0 THEN
             /\ batch' = batch
             /\ pc' = "ZeroDivisionError"
          ELSE
             /\ batch' = Append(batch, [file |-> file_index + 1,
                                        optimized_ransac |-> Val(res).ransac_error,
                                        optimization_successful |-> Val(res).optimization_successful,
                                        final_status |-> Val(res).status])
             /\ pc' = pc
    /\ UNCHANGED <<mesh, mode, anatomy, scoring, applied, result, report, calls, rotation, alignment, disk>>

\* mutant: the filter tests the error for truth, which drops an error of 0.0
is_successful_truthy(r) == Truthy(r.best_ransac)

\* r['best_ransac'] is not None
is_successful(r) == r.best_ransac # None

CountWhere(results, Test(_)) == Cardinality({ i \in 1..Len(results) : Test(results[i]) })

SeqMin(xs) == CHOOSE a \in {xs[i] : i \in DOMAIN xs} : \A i \in DOMAIN xs : a <= xs[i]
SeqMax(xs) == CHOOSE a \in {xs[i] : i \in DOMAIN xs} : \A i \in DOMAIN xs : a >= xs[i]

RECURSIVE SeqSum(_)
SeqSum(xs) == IF xs = <<>> THEN 0 ELSE xs[1] + SeqSum(Tail(xs))

\* the numbers generate_final_report prints; after the overview it returns
\* early when no result is successful
final_report(results) ==
    LET successful_results == SelectSeq(results, is_successful)
        ransac_errors == [i \in 1..Len(successful_results) |-> Val(successful_results[i].best_ransac)]
        is_excellent(r) == Val(r.best_ransac) < excellent_threshold
        is_very_good(r) == excellent_threshold <= Val(r.best_ransac) /\ Val(r.best_ransac) < good_threshold
        is_good(r) == good_threshold <= Val(r.best_ransac) /\ Val(r.best_ransac) < poor_threshold
        is_poor(r) == Val(r.best_ransac) >= poor_threshold
        is_anatomical(r) == r.best_method = Some("anatomical")
        is_ultimate(r) == r.best_method = Some("ultimate")
        needs(r) == r.needs_optimization
    IN [total |-> Len(results),
        successful |-> Len(successful_results),
        analysis |->
            IF successful_results = <<>> THEN None
            ELSE Some([best |-> SeqMin(ransac_errors),
                       worst |-> SeqMax(ransac_errors),
                       sum |-> SeqSum(ransac_errors),
                       excellent |-> CountWhere(successful_results, is_excellent),
                       very_good |-> CountWhere(successful_results, is_very_good),
                       good |-> CountWhere(successful_results, is_good),
                       poor |-> CountWhere(successful_results, is_poor),
                       anatomical_best |-> CountWhere(successful_results, is_anatomical),
                       ultimate_best |-> CountWhere(successful_results, is_ultimate),
                       poor_performers |-> CountWhere(results, needs)])]

\* test_summary_report.json as save_results writes it (literal 10, 100, 10000),
\* None when no result is successful and the file is not written
saved_summary(results) ==
    LET successful_results == SelectSeq(results, is_successful)
        ransac_errors == [i \in 1..Len(successful_results) |-> Val(successful_results[i].best_ransac)]
        is_excellent(r) == Val(r.best_ransac) < 100
        is_very_good(r) == 100 <= Val(r.best_ransac) /\ Val(r.best_ransac) < 1000
        is_good(r) == 1000 <= Val(r.best_ransac) /\ Val(r.best_ransac) < 100000
        is_poor(r) == Val(r.best_ransac) >= 100000
        is_anatomical(r) == r.best_method = Some("anatomical")
        is_ultimate(r) == r.best_method = Some("ultimate")
        needs(r) == r.needs_optimization
    IN IF successful_results = <<>> THEN None
       ELSE Some([total_files |-> Len(results),
                  successful_tests |-> Len(successful_results),
                  best_ransac |-> SeqMin(ransac_errors),
                  worst_ransac |-> SeqMax(ransac_errors),
                  sum_ransac |-> SeqSum(ransac_errors),
                  anatomical_best |-> CountWhere(successful_results, is_anatomical),
                  ultimate_best |-> CountWhere(successful_results, is_ultimate),
                  excellent |-> CountWhere(successful_results, is_excellent),
                  very_good |-> CountWhere(successful_results, is_very_good),
                  good |-> CountWhere(successful_results, is_good),
                  poor |-> CountWhere(successful_results, is_poor),
                  poor_performers_count |-> CountWhere(results, needs)])

\* sorted(successful_results, key=best_ransac): a new list, by insertion
RECURSIVE sorted_by_ransac(_)
sorted_by_ransac(results) ==
    IF results = <<>> THEN <<>>
    ELSE LET rest == sorted_by_ransac(Tail(results))
             k == Cardinality({ i \in 1..Len(rest) :
                                  Val(rest[i].best_ransac) < Val(results[1].best_ransac) })
         IN SubSeq(rest, 1, k) \o <<results[1]>> \o SubSeq(rest, k + 1, Len(rest))

\* mutant: the report sorts the list it was handed, failures last, in place
results_after_report_sorted(results) ==
    sorted_by_ransac(SelectSeq(results, is_successful))
    \o SelectSeq(results, LAMBDA r : ~is_successful(r))

\* the list the caller holds once generate_final_report has returned: the
\* report builds new lists (comprehensions, sorted()) and assigns to no result
results_after_report(results) == results

\* generate_final_report(all_results), after the loop has gone through every file
generate_final_report ==
    /\ mode = "suite_run"
    /\ pc = "start"
    /\ file_index = MaxFiles
    /\ report' = Some([final |-> final_report(batch),
                       top_performers |-> IF SelectSeq(batch, is_successful) = <<>> THEN <<>>
                                          ELSE sorted_by_ransac(SelectSeq(batch, is_successful)),
                       summary |-> None])
    /\ batch' = results_after_report(batch)
    /\ pc' = "reported"
    /\ UNCHANGED <<mesh, mode, anatomy, scoring, applied, result, attempts, file_index, calls, rotation, alignment, disk>>

\* save_results(all_results)
save_results ==
    /\ mode = "suite_run"
    /\ pc = "reported"
    /\ report' = Some([Val(report) EXCEPT !.summary = saved_summary(batch)])
    /\ pc' = "saved"
    /\ UNCHANGED <<mesh, mode, anatomy, scoring, applied, result, attempts, file_index, batch, calls, rotation, alignment, disk>>

\* generate_optimization_report(optimization_results)
generate_optimization_report ==
    /\ mode = "optimizer_run"
    /\ pc = "start"
    /\ file_index = n_poor_performers
    /\ report' = IF batch = <<>> THEN None
                 ELSE Some([processed |-> Len(batch),
                            successful |-> Cardinality({ i \in 1..Len(batch) :
                                                           batch[i].optimization_successful })])
    /\ pc' = "reported"
    /\ UNCHANGED <<mesh, mode, anatomy, scoring, applied, result, attempts, file_index, batch, calls, rotation, alignment, disk>>

InitRun ==
    /\ mesh = BatchMesh
    /\ mode \in {"suite_run", "optimizer_run", "batch"}
    /\ pc = "start"
    /\ Idle

NextRun ==
    \/ \E a \in RunOutcomes, u \in RunOutcomes : run_comprehensive_test_file(a, u)
    \/ generate_final_report
    \/ save_results
    \/ \E o \in OptimizerOutcomes : optimize_poor_performer(o)
    \/ generate_optimization_report
    \/ \E o \in BatchOutcomes : process_batch_file(o)
    \/ generate_comprehensive_report

SpecRun == InitRun /\ [][NextRun]_vars

----------------------------------------------------------------------------
(* Properties of the runs, under SpecRun *)

\* length of the input list of the running driver
InputLength ==
    IF mode = "suite_run" THEN MaxFiles
    ELSE IF mode = "optimizer_run" THEN n_poor_performers
    ELSE MaxBatch

RunOver == pc # "start"

\* C21: in a batch run no failure of one mesh (alignment exception, predictor
\* unavailable, both methods failing, any error value including 0) keeps the
\* remaining meshes from being processed: when the run is over every mesh of
\* the input list has been taken up.
C21_EveryMeshAttempted ==
    RunOver => file_index = InputLength

\* what holds: run_comprehensive_test and process_batch go through the whole
\* list whatever each mesh returns; optimize_all_poor_performers stops at the
\* first mesh whose error is 0
C21_OnlyOptimizerStops ==
    /\ (RunOver /\ mode # "optimizer_run") => file_index = InputLength
    /\ (RunOver /\ mode = "optimizer_run" /\ file_index < InputLength) =>
          /\ pc = "ZeroDivisionError"
          /\ attempts[Len(attempts)].outcome.success
          /\ attempts[Len(attempts)].outcome.ransac_error = 0

\* result['recommendation'] of a returned test_single_file_hybrid result, the
\* numbers inside the two formatted texts left out
recommendation(r) ==
    IF r.anatomical_result # None /\ skip_ultimate(Val(r.anatomical_result))
        THEN "Use anatomical alignment - excellent results"
    ELSE IF r.anatomical_result # None /\ r.ultimate_result # None THEN
        IF r.best_method = Some("anatomical")
        THEN "Use anatomical alignment (RANSAC)"
        ELSE "Use ultimate preprocessing (RANSAC, x better)"
    ELSE IF r.anatomical_result # None THEN "Use anatomical alignment - ultimate failed"
    ELSE IF r.ultimate_result # None THEN "Use ultimate preprocessing - anatomical failed"
    ELSE "Both methods failed - needs manual investigation"

\* every text a per-mesh result of the suite carries
ResultTexts(r) ==
    {recommendation(r)}
    \cup (IF r.anatomical_result = None THEN {} ELSE {Val(r.anatomical_result).status})
    \cup (IF r.ultimate_result = None THEN {} ELSE {Val(r.ultimate_result).status})
    \cup (IF r.best_method = None THEN {} ELSE {Val(r.best_method)})
    \cup (IF r.best_performance = None THEN {} ELSE {Val(r.best_performance)})

FailedAttempts == { k \in 1..Len(attempts) : ~attempts[k].outcome.success }

\* C22: every failed attempt and every failed mesh is recorded in the
\* per-mesh result that reaches the batch report, together with the reason
\* that identifies its cause.
C22_FailuresRecordedWithReason ==
    /\ mode = "suite_run" =>
          \A k \in FailedAttempts :
              /\ attempts[k].file <= Len(batch)
              /\ attempts[k].outcome.error \in ResultTexts(batch[attempts[k].file])
    /\ mode = "optimizer_run" =>
          \A k \in FailedAttempts : \E i \in 1..Len(batch) : batch[i].file = attempts[k].file
    /\ mode = "batch" => Len(batch) = file_index

\* what the code keeps of a failure: the suite leaves the method's entry None
\* and says at most which method failed, the optimizer and process_batch
\* append nothing for the mesh
C22_FailuresLeaveNoReason ==
    /\ mode = "suite_run" =>
          \A k \in FailedAttempts :
              LET r == batch[attempts[k].file]
              IN /\ (IF attempts[k].method = "anatomical" THEN r.anatomical_result
                                                          ELSE r.ultimate_result) = None
                 /\ attempts[k].outcome.error \notin ResultTexts(r)
    /\ mode = "optimizer_run" =>
          \A k \in FailedAttempts : \A i \in 1..Len(batch) : batch[i].file # attempts[k].file
    /\ mode = "batch" => Len(batch) <= file_index

----------------------------------------------------------------------------
(* Reading the predictor's output                                           *)
(*   extractor       PLYLandmarkExtractor.extract_landmarks_from_ply        *)
(*   run_prediction  HybridPLYProcessor.run_prediction                      *)
(* The output text is kept as what the regular expressions find in it.      *)

MaxCoords == 3

n_landmarks == 68

\* an output text: coordinate triples on lines naming a landmark or coord,
\* the state of a .txt file a line names, and the numeric tokens in the text
LandmarkOutputs ==
    { o \in [coords : 0..MaxCoords,
             txt : {"none", "missing", "unreadable", "readable"},
             numbers : {0, 3, 6, 9, 203, 204, 205, 300}] :
        o.numbers >= 3 * o.coords }

\* how the predictor run ends for the extractor
ExtractorRuns ==
    { [ended |-> "timeout"], [ended |-> "exception"] }
    \cup { [ended |-> "returned", output |-> o] : o \in LandmarkOutputs }

\* the three parsing methods in turn, then generate_dummy_landmarks()
parse_landmarks_from_output(output) ==
    IF output.txt = "readable" THEN Some([source |-> "landmark_file", count |-> n_landmarks])
    ELSE IF output.coords = 0 /\ output.numbers >= n_landmarks * 3
        THEN Some([source |-> "numbers", count |-> n_landmarks])
    ELSE IF output.coords > 0 THEN Some([source |-> "lines", count |-> output.coords])
    ELSE Some([source |-> "dummy", count |-> n_landmarks])

\* extract_landmarks_from_ply: the landmarks file it wrote and returned, or None
extract_landmarks_from_ply(run) ==
    /\ mode = "extractor"
    /\ pc = "start"
    /\ LET landmarks == IF run.ended = "returned" THEN parse_landmarks_from_output(run.output)
                        ELSE None
       IN result' = Some([run |-> run,
                          returned |-> IF landmarks # None
                                       THEN Some([landmarks_file |-> Val(landmarks)])
                                       ELSE None])
    /\ pc' = "done"
    /\ UNCHANGED <<mesh, mode, anatomy, scoring, applied, attempts, file_index, batch, report, calls, rotation, alignment, disk>>

\* how the predictor run ends for run_prediction: the error line with its
\* value, no error line, a timeout, another exception
PredictionRuns ==
    { [ended |-> "timeout"], [ended |-> "exception"], [ended |-> "returned", match |-> None] }
    \cup { [ended |-> "returned", match |-> Some(e)] : e \in Errors }

run_prediction(run) ==
    /\ mode = "run_prediction"
    /\ pc = "start"
    /\ result' = Some([run |-> run,
                       returned |->
                           IF run.ended = "timeout" THEN [success |-> FALSE, error |-> "Prediction timeout"]
                           ELSE IF run.ended = "exception" THEN [success |-> FALSE, error |-> "exception"]
                           ELSE IF run.match # None
                               THEN [success |-> TRUE, ransac_error |-> Val(run.match)]
                           ELSE [success |-> FALSE, error |-> "Could not extract RANSAC error"]])
    /\ pc' = "done"
    /\ UNCHANGED <<mesh, mode, anatomy, scoring, applied, attempts, file_index, batch, report, calls, rotation, alignment, disk>>

InitParse ==
    /\ mesh = BatchMesh
    /\ mode \in {"extractor", "run_prediction"}
    /\ pc = "start"
    /\ Idle

NextParse ==
    \/ \E run \in ExtractorRuns : extract_landmarks_from_ply(run)
    \/ \E run \in PredictionRuns : run_prediction(run)

SpecParse == InitParse /\ [][NextParse]_vars

\* nothing meaningful in the output: no coordinate line, no readable landmark
\* file, fewer than 68 * 3 numbers
NothingParsed(output) ==
    output.coords = 0 /\ output.txt # "readable" /\ output.numbers < n_landmarks * 3

\* C23: when no meaningful result can be parsed from the predictor's output
\* the caller receives an explicit failure outcome; no synthetic placeholder
\* is returned in place of a parsed result.
C23_NoPlaceholder ==
    /\ (mode = "extractor" /\ result # None) =>
          /\ ((Val(result).run.ended = "returned" /\ NothingParsed(Val(result).run.output))
                => Val(result).returned = None)
          /\ (Val(result).returned # None =>
                Val(Val(result).returned).landmarks_file.source # "dummy")
    /\ (mode = "run_prediction" /\ result # None) =>
          ((Val(result).run.ended # "returned" \/ Val(result).run.match = None)
              => ~Val(result).returned.success)

\* what the code does: run_prediction fails explicitly, the extractor writes
\* and returns the 68 dummy landmarks whenever nothing was parsed
C23_ExtractorFabricates ==
    /\ (mode = "extractor" /\ result # None /\ Val(result).run.ended = "returned") =>
          /\ Val(result).returned # None
          /\ (NothingParsed(Val(result).run.output)
                <=> Val(Val(result).returned).landmarks_file.source = "dummy")
    /\ (mode = "extractor" /\ result # None /\ Val(result).run.ended # "returned") =>
          Val(result).returned = None
    /\ (mode = "run_prediction" /\ result # None) =>
          ((Val(result).run.ended # "returned" \/ Val(result).run.match = None)
              <=> ~Val(result).returned.success)

----------------------------------------------------------------------------
(* Records of earlier attempts, under Spec *)

\* the record the result holds for a method: its error and tier, None if none
RecordOf(method) ==
    IF mode = "suite" THEN
        IF method = "anatomical" THEN Val(result).anatomical_result ELSE Val(result).ultimate_result
    ELSE LET held == { k \in 1..Len(Val(result).all_results) :
                         Val(result).all_results[k].method = method }
         IN IF held = {} THEN None
            ELSE LET k == CHOOSE k \in held : TRUE
                 IN Some([ransac_error |-> Val(result).all_results[k].ransac_error,
                          status |-> Val(result).all_results[k].status])

TierIn(m, e) == IF m = "suite" THEN classify_performance(e) ELSE processor_assessment(e)

\* C24: a second attempt never overwrites the record of the first: after any
\* sequence of attempts for a mesh, every attempt that returned an error is
\* still recorded under its own method with that error and its tier, and so
\* all of them are there when the final decision is taken.
C24_EarlierRecordsKept ==
    \A i \in SuccessfulAttempts :
        RecordOf(attempts[i].method)
            = Some([ransac_error |-> attempts[i].outcome.ransac_error,
                    status |-> TierIn(mode, attempts[i].outcome.ransac_error)])

\* C24 witness: after a first error of 65.0 a second attempt returned 4.1 and
\* was chosen, and the record of the first is still there.
C24_Witness ==
    /\ Finished
    /\ Len(attempts) = 2
    /\ attempts[1].outcome.success /\ attempts[1].outcome.ransac_error = 650
    /\ attempts[2].outcome.success /\ attempts[2].outcome.ransac_error = 41
    /\ Val(result).best_method = Some(attempts[2].method)
    /\ RecordOf(attempts[1].method) # None
    /\ Val(RecordOf(attempts[1].method)).ransac_error = 650

----------------------------------------------------------------------------
(* The aggregation of a suite run, under SpecRun *)

\* the outcome logged for a method on a file of the run; the anatomical
\* outcome stands in where the ultimate test was not run
LoggedOutcome(file, method) ==
    LET held == { k \in 1..Len(attempts) :
                    attempts[k].file = file /\ attempts[k].method = method }
        first == { k \in 1..Len(attempts) :
                     attempts[k].file = file /\ attempts[k].method = "anatomical" }
    IN IF held # {} THEN attempts[CHOOSE k \in held : TRUE].outcome
       ELSE attempts[CHOOSE k \in first : TRUE].outcome

\* the result test_single_file_hybrid returned for a file of the run
ReturnedFor(file) ==
    test_single_file_hybrid(LoggedOutcome(file, "anatomical"), LoggedOutcome(file, "ultimate"))

\* C25: the final report and the saved summary of a suite run exist only once
\* every file of the run has its returned result; the results they read are
\* still the ones test_single_file_hybrid returned, in the same order; and
\* computing the report and the summary again from them gives the same counts
\* and statistics.
C25_AggregationAfterAllAndPure ==
    (mode = "suite_run" /\ report # None) =>
        /\ file_index = MaxFiles
        /\ Len(batch) = MaxFiles
        /\ \A i \in 1..Len(batch) : batch[i].returned /\ batch[i] = ReturnedFor(i)
        /\ Val(report).final = final_report(batch)
        /\ (Val(report).summary # None => Val(report).summary = saved_summary(batch))

\* C25 witness: report and summary were produced for a run whose first file
\* failed with both methods, whose second resolved at 65.0 and whose third at
\* 0.0, so the results are not in the order of their errors.
C25_Witness ==
    /\ mode = "suite_run"
    /\ pc = "saved"
    /\ report # None
    /\ Val(report).summary # None
    /\ Len(batch) = MaxFiles
    /\ batch[1].best_ransac = None
    /\ batch[2].best_ransac = Some(650)
    /\ batch[3].best_ransac = Some(0)
    /\ Val(report).final.successful = 2

----------------------------------------------------------------------------
(* Equal errors, under Spec *)

\* both methods were attempted and returned exactly the same error
BothReturnedSame ==
    /\ Len(attempts) = 2
    /\ attempts[1].outcome.success /\ attempts[2].outcome.success
    /\ attempts[1].method # attempts[2].method
    /\ attempts[1].outcome.ransac_error = attempts[2].outcome.ransac_error

\* C26: when both methods were attempted for a mesh and returned exactly the
\* same error, the final decision is the anatomical method with that error, in
\* test_single_file_hybrid and in process_single_file_hybrid.
C26_TieGoesToAnatomical ==
    (Finished /\ BothReturnedSame) =>
        /\ Val(result).best_method = Some("anatomical")
        /\ Val(result).best_ransac = Some(attempts[1].outcome.ransac_error)

\* C26 witness: the processor tried both methods, each returned 65.0, and it
\* finished with the anatomical method.
C26_Witness ==
    /\ mode = "processor"
    /\ Finished
    /\ BothReturnedSame
    /\ attempts[1].outcome.ransac_error = 650
    /\ Val(result).best_method = Some("anatomical")

\* the same in the suite: both testers returned 65.0
C26_SuiteTie ==
    /\ mode = "suite"
    /\ Finished
    /\ BothReturnedSame
    /\ attempts[1].outcome.ransac_error = 650
    /\ Val(result).best_method = Some("anatomical")

----------------------------------------------------------------------------
(* The height of the aligned mesh in normal mode, under SpecGeom *)

\* the mesh's extent along the up direction detect_anatomical_features estimated
UpExtent ==
    LET up == Val(anatomy).estimated_up_dir
    IN up[1] * (Bounds[2] - Bounds[1]) + up[2] * (Bounds[4] - Bounds[3])
       + up[3] * (Bounds[6] - Bounds[5])

Aligned == Val(Val(alignment).transformed)

\* the extent of the aligned mesh along +Y is the fraction e
AlignedHeightIs(e) ==
    /\ \E i, j \in DOMAIN Aligned :
          LET dv == AddVec(Aligned[i], NegVec(Aligned[j])) IN dv.x[2] * e.d = e.n * dv.q
    /\ \A i, j \in DOMAIN Aligned :
          LET dv == AddVec(Aligned[i], NegVec(Aligned[j])) IN dv.x[2] * e.d <= e.n * dv.q

\* C28: in normal (scaling) mode, for every orientation hypothesis, the scale
\* factor is target_face_height over the mesh's extent along its estimated up
\* direction and the aligned mesh's extent along +Y is target_face_height.
C28_AlignedHeightIsTarget ==
    (mode = "anatomical_aligner" /\ alignment # None) =>
        /\ Val(alignment).raised = None
        /\ SameFraction(Val(Val(alignment).transform_params).scale_factor,
                        [n |-> target_face_height, d |-> UpExtent])
        /\ AlignedHeightIs([n |-> target_face_height, d |-> 1])

\* what the code does: the scale is target_face_height over the Y range
\* whatever the hypothesis, so the aligned height is the extent along the
\* estimated up direction times that scale, and a zero Y range raises
C28_ScaledByYRange ==
    (mode = "anatomical_aligner" /\ alignment # None) =>
        IF YRange = 0 THEN Val(alignment).raised = Some("ZeroDivisionError")
        ELSE /\ Val(alignment).raised = None
             /\ SameFraction(Val(Val(alignment).transform_params).scale_factor,
                             [n |-> target_face_height, d |-> YRange])
             /\ AlignedHeightIs([n |-> target_face_height * UpExtent, d |-> YRange])

\* a z_up mesh of Y range 2 and Z range 3 comes out 285 high
C28_ZUpTooHigh ==
    /\ mode = "anatomical_aligner"
    /\ alignment # None /\ Val(alignment).raised = None
    /\ Val(anatomy).orientation_guess = "z_up"
    /\ YRange = 2 /\ UpExtent = 3
    /\ AlignedHeightIs([n |-> 285, d |-> 1])

----------------------------------------------------------------------------
(* Alignment to the reference template: align_ply_to_obj_system and          *)
(* PLYTestSuite.align_ply_to_obj_coordinate_system                           *)

\* extents whose bounding diagonal is a whole number: 3, 7, 5, 2
RefExtents == { <<1, 2, 2>>, <<2, 3, 6>>, <<0, 3, 4>>, <<2, 0, 0>> }
RefOffsets == { <<0, 0, 0>>, <<3, -6, 9>> }

\* three vertices spanning a box of extents e with one corner at o
BoxVertices(o, e) ==
    << o, <<o[1] + e[1], o[2] + e[2], o[3] + e[3]>>, <<o[1] + e[1], o[2], o[3]>> >>

\* an input mesh together with the reference mesh read from obj_reference
RefMeshes ==
    { [vertices |-> BoxVertices(o, e), obj_vertices |-> BoxVertices(ro, re)] :
        o \in RefOffsets, e \in RefExtents, ro \in RefOffsets, re \in RefExtents }

\* np.sqrt(np.sum((max corner - min corner)**2)) of the bounds
bounds_diagonal(vs) ==
    LET b == GetBounds(vs)
    IN Sqrt((b[2] - b[1]) * (b[2] - b[1]) + (b[4] - b[3]) * (b[4] - b[3])
            + (b[6] - b[5]) * (b[6] - b[5]))

\* obj_diagonal / ply_diagonal
reference_scale_factor(m) ==
    LET obj_diagonal == bounds_diagonal(m.obj_vertices)
        ply_diagonal == bounds_diagonal(m.vertices)
        g == GCD(obj_diagonal, ply_diagonal)
    IN [n |-> obj_diagonal \div g, d |-> ply_diagonal \div g]

\* vtkTransform(); Translate(-ply_center); Scale(scale_factor); Translate(obj_center)
reference_vtk_transform(m) ==
    [post_multiply |-> FALSE,
     ops |-> << [op |-> "Translate", arg |-> NegVec(mean(m.vertices))],
                [op |-> "Scale", arg |-> reference_scale_factor(m)],
                [op |-> "Translate", arg |-> mean(m.obj_vertices)] >>]

\* what both functions do after the two meshes are read
reference_alignment(m) ==
    alignment_outcome(m,
                      [raised |-> None,
                       params |-> Some([scale_factor |-> reference_scale_factor(m)])],
                      reference_vtk_transform(m))

align_ply_to_obj_system ==
    /\ mode = "ultimate_preprocessor"
    /\ alignment = None
    /\ alignment' = Some(reference_alignment(mesh))
    /\ UNCHANGED <<mesh, mode, pc, anatomy, scoring, applied, result, attempts, file_index, batch, report, calls, rotation, disk>>

align_ply_to_obj_coordinate_system ==
    /\ mode = "ply_test_suite"
    /\ alignment = None
    /\ alignment' = Some(reference_alignment(mesh))
    /\ UNCHANGED <<mesh, mode, pc, anatomy, scoring, applied, result, attempts, file_index, batch, report, calls, rotation, disk>>

RefModes == {"ultimate_preprocessor", "ply_test_suite"}

InitRef ==
    /\ mode \in RefModes
    /\ mesh \in RefMeshes
    /\ pc = "start"
    /\ Idle

NextRef ==
    \/ align_ply_to_obj_system
    \/ align_ply_to_obj_coordinate_system

SpecRef == InitRef /\ [][NextRef]_vars

\* centroid of the reference mesh
ObjCenter == mean(mesh.obj_vertices)

\* index of the aligned vertex with the largest, the smallest k-th coordinate
Highest(k) ==
    CHOOSE i \in DOMAIN Aligned :
        \A j \in DOMAIN Aligned : Aligned[i].x[k] * Aligned[j].q >= Aligned[j].x[k] * Aligned[i].q
Lowest(k) ==
    CHOOSE i \in DOMAIN Aligned :
        \A j \in DOMAIN Aligned : Aligned[i].x[k] * Aligned[j].q <= Aligned[j].x[k] * Aligned[i].q

\* extent of the aligned mesh along axis k, as a fraction
AlignedExtent(k) ==
    LET dv == AddVec(Aligned[Highest(k)], NegVec(Aligned[Lowest(k)]))
    IN [n |-> dv.x[k], d |-> dv.q]

\* square of the aligned mesh's bounding diagonal, as a fraction
AlignedDiagonalSq ==
    LET a == AlignedExtent(1)
        b == AlignedExtent(2)
        c == AlignedExtent(3)
    IN [n |-> a.n * a.n * b.d * b.d * c.d * c.d + b.n * b.n * a.d * a.d * c.d * c.d
              + c.n * c.n * a.d * a.d * b.d * b.d,
        d |-> a.d * a.d * b.d * b.d * c.d * c.d]

ObjDiagonalSq ==
    [n |-> bounds_diagonal(mesh.obj_vertices) * bounds_diagonal(mesh.obj_vertices), d |-> 1]

\* C27: align_ply_to_obj_system, with Translate(-mesh centroid), Scale(reference
\* diagonal / mesh diagonal), Translate(reference centroid) on a default
\* vtkTransform, maps the mesh's centroid to the reference centroid and makes
\* the mesh's bounding diagonal equal to the reference diagonal, for every
\* mesh centroid, reference centroid and scale factor.
C27_CentroidAndDiagonalMatch ==
    (mode \in RefModes /\ alignment # None) =>
        /\ TransformPoint(Val(Val(alignment).vtk_transform), Center) = ObjCenter
        /\ SameFraction(AlignedDiagonalSq, ObjDiagonalSq)

\* what the code does: the default vtkTransform pre-multiplies, so the last
\* call acts first and a point p goes to scale * (p + obj_center) - ply_center;
\* the diagonal comes out right, the centroid only when the scale is 1 or the
\* two centroids are opposite
C27_PreMultiplied ==
    (mode \in RefModes /\ alignment # None) =>
        LET scale_factor == Val(Val(alignment).transform_params).scale_factor
            image == TransformPoint(Val(Val(alignment).vtk_transform), Center)
        IN /\ image = AddVec(ScaleVec(scale_factor, AddVec(Center, ObjCenter)), NegVec(Center))
           /\ SameFraction(AlignedDiagonalSq, ObjDiagonalSq)
           /\ (image = ObjCenter)
                 <=> (scale_factor = [n |-> 1, d |-> 1] \/ Center = NegVec(ObjCenter))

\* a mesh of diagonal 3 centred off the origin, a reference of diagonal 7
C27_CentroidMissed ==
    /\ mode = "ultimate_preprocessor"
    /\ alignment # None
    /\ Val(Val(alignment).transform_params).scale_factor = [n |-> 7, d |-> 3]
    /\ Center # Origin
    /\ TransformPoint(Val(Val(alignment).vtk_transform), Center) # ObjCenter
    /\ SameFraction(AlignedDiagonalSq, ObjDiagonalSq)

----------------------------------------------------------------------------
(* Counts of the suite report, under SpecRun *)

\* the results of the run that carry a best error
Resolved == { i \in 1..Len(batch) : batch[i].best_ransac # None }

Tiers == {"excellent", "very_good", "good", "poor"}

\* the count a report or summary gives for a tier
TierCount(counts, tier) ==
    IF tier = "excellent" THEN counts.excellent
    ELSE IF tier = "very_good" THEN counts.very_good
    ELSE IF tier = "good" THEN counts.good
    ELSE counts.poor

\* every resolved mesh is in exactly one tier, the one classify_performance
\* gives its best error, and under exactly one method
CountsPartition(counts, successful) ==
    /\ successful = Cardinality(Resolved)
    /\ counts.excellent + counts.very_good + counts.good + counts.poor = successful
    /\ counts.anatomical_best + counts.ultimate_best = successful
    /\ \A tier \in Tiers :
          TierCount(counts, tier)
              = Cardinality({ i \in Resolved : classify_performance(Val(batch[i].best_ransac)) = tier })
    /\ counts.anatomical_best
          = Cardinality({ i \in Resolved : batch[i].best_method = Some("anatomical") })

\* C29: in every report of a suite run, and in the saved summary, each
\* successfully resolved mesh is counted in exactly one tier and attributed to
\* exactly one method: excellent + very_good + good + poor and anatomical_best
\* + ultimate_best both equal the number of successful meshes, and a mesh is
\* counted in the tier classify_performance assigns to its best error.  With
\* no successful mesh the report ends after the overview and gives no counts.
C29_CountsPartitionSuccessful ==
    (mode = "suite_run" /\ report # None) =>
        /\ Val(report).final.successful = Cardinality(Resolved)
        /\ (Val(report).final.analysis = None) <=> (Resolved = {})
        /\ (Val(report).final.analysis # None) =>
              CountsPartition(Val(Val(report).final.analysis), Val(report).final.successful)
        /\ (Val(report).summary # None) =>
              CountsPartition(Val(Val(report).summary), Val(Val(report).summary).successful_tests)

\* C29 witness: of three meshes one failed, one resolved at 0.0 by the
\* anatomical method and one at 50000.0 by the ultimate method; report and
\* summary count one excellent and one poor, one per method.
C29_Witness ==
    /\ mode = "suite_run"
    /\ pc = "saved"
    /\ Cardinality(Resolved) = 2
    /\ \E i \in Resolved : batch[i].best_ransac = Some(0) /\ batch[i].best_method = Some("anatomical")
    /\ \E i \in Resolved : batch[i].best_ransac = Some(500000) /\ batch[i].best_method = Some("ultimate")
    /\ Val(Val(report).final.analysis).excellent = 1
    /\ Val(Val(report).final.analysis).poor = 1
    /\ Val(Val(report).summary).anatomical_best = 1
    /\ Val(Val(report).summary).ultimate_best = 1

----------------------------------------------------------------------------
(* Temporary aligned files: test_anatomical_method / test_ultimate_method of *)
(* the suite, the loop of process_single_file_hybrid, the optimizer's        *)
(* test_ultimate_preprocessing and the analyzer's test_sample_files          *)

TempModes == {"temp_suite", "temp_processor", "temp_optimizer", "temp_analyzer"}

\* the methods a program runs on one mesh, in order
temp_methods(m) ==
    IF m \in {"temp_suite", "temp_processor"} THEN <<"anatomical", "ultimate">>
    ELSE IF m = "temp_optimizer" THEN <<"ultimate">>
    ELSE <<"anatomical">>

\* temp_anatomical_{base}.ply, temp_ultimate_{base}.ply (temp_ana_, temp_ult_
\* in the analyzer)
temp_file(method) == IF method = "anatomical" THEN "temp_anatomical.ply" ELSE "temp_ultimate.ply"

\* if os.path.exists(temp_file): os.remove(temp_file)
remove_if_exists(files, f) == files \ {f}

\* mutant: the except branch returns the failure without removing the file
except_cleanup_missing(files, f) == files

\* the except Exception branch of the suite's testers and the "Cleanup on
\* failure" the optimizer reaches after its except branch
except_cleanup(files, f) == remove_if_exists(files, f)

\* what the predictor run and the search for the error line can yield
PredictionOutcomes ==
    { [success |-> FALSE, error |-> r] :
        r \in {"Prediction timeout", "Prediction error", "Could not extract RANSAC"} }
    \cup { [success |-> TRUE, ransac_error |-> e] : e \in {41, 650, 500000} }

PredictionRaised(o) == ~o.success /\ o.error \in {"Prediction timeout", "Prediction error"}

\* where the program goes after an attempt: the suite stops after an excellent
\* anatomical result, otherwise the next method if there is one
temp_next(m, method, o, tried) ==
    IF m = "temp_suite" /\ method = "anatomical" /\ o.success
       /\ skip_ultimate(attempt_entry(o.ransac_error))
    THEN "done"
    ELSE IF tried < Len(temp_methods(m)) THEN "start" ELSE "done"

\* the alignment call: it raises before anything is written, or it writes the
\* aligned file.  On an exception the suite and the optimizer run their
\* cleanup, the processor and the analyzer go on to the next item.
temp_alignment(raises) ==
    /\ mode \in TempModes
    /\ pc = "start"
    /\ LET method == temp_methods(mode)[Len(attempts) + 1]
           f == temp_file(method)
           o == [success |-> FALSE, error |-> "alignment_exception"]
       IN IF raises THEN
              /\ attempts' = Append(attempts, [method |-> method, outcome |-> o, written |-> FALSE])
              /\ disk' = IF mode \in {"temp_suite", "temp_optimizer"}
                         THEN except_cleanup(disk, f)
                         ELSE disk
              /\ pc' = temp_next(mode, method, o, Len(attempts) + 1)
          ELSE
              /\ disk' = disk \cup {f}
              /\ pc' = "aligned"
              /\ attempts' = attempts
    /\ UNCHANGED <<mesh, mode, anatomy, scoring, applied, result, file_index, batch, report, calls, rotation, alignment>>

\* the predictor run on the aligned file and the cleanup that follows on the
\* path taken
temp_prediction(o) ==
    /\ mode \in TempModes
    /\ pc = "aligned"
    /\ LET method == temp_methods(mode)[Len(attempts) + 1]
           f == temp_file(method)
       IN /\ attempts' = Append(attempts, [method |-> method, outcome |-> o, written |-> TRUE])
          /\ disk' = IF PredictionRaised(o) /\ mode \in {"temp_suite", "temp_optimizer"}
                     THEN except_cleanup(disk, f)
                     ELSE remove_if_exists(disk, f)
          /\ pc' = temp_next(mode, method, o, Len(attempts) + 1)
    /\ UNCHANGED <<mesh, mode, anatomy, scoring, applied, result, file_index, batch, report, calls, rotation, alignment>>

InitTemp ==
    /\ mode \in TempModes
    /\ mesh = BatchMesh
    /\ pc = "start"
    /\ Idle

NextTemp ==
    \/ \E raises \in BOOLEAN : temp_alignment(raises)
    \/ \E o \in PredictionOutcomes : temp_prediction(o)

SpecTemp == InitTemp /\ [][NextTemp]_vars

\* C30: after the processing of a mesh ends, whichever way each attempt ended
\* (alignment exception, predictor timeout or crash, unparseable output,
\* success), no temporary aligned mesh file written for that mesh's attempts
\* remains on disk; a file is on disk only between its alignment and the end
\* of its prediction.
C30_NoTempFileLeft ==
    mode \in TempModes =>
        /\ pc \in {"start", "done"} => disk = {}
        /\ pc = "aligned" => disk = {temp_file(temp_methods(mode)[Len(attempts) + 1])}

\* C30 witness: the processor wrote the anatomical file and the predictor
\* timed out, then the ultimate alignment raised; nothing is left on disk.
C30_Witness ==
    /\ mode = "temp_processor"
    /\ pc = "done"
    /\ Len(attempts) = 2
    /\ attempts[1].written
    /\ attempts[1].outcome = [success |-> FALSE, error |-> "Prediction timeout"]
    /\ ~attempts[2].written
    /\ attempts[2].outcome = [success |-> FALSE, error |-> "alignment_exception"]
    /\ disk = {}

\* the same after a predictor crash in the suite and in the optimizer
C30_AfterCrash ==
    /\ mode \in {"temp_suite", "temp_optimizer"}
    /\ pc = "done"
    /\ \E i \in 1..Len(attempts) :
          attempts[i].written /\ attempts[i].outcome = [success |-> FALSE, error |-> "Prediction error"]
    /\ disk = {}

====
